---------------------------- MODULE Spec2Model ----------------------------
(***************************************************************************)
(* Model of mcp-gmail: the payload tree decoder and MIME message builder   *)
(* of utils.ts, the GmailClient facade of gmail-client.ts and the tool     *)
(* handlers of index.ts.                                                   *)
(*                                                                         *)
(* A JavaScript string is a sequence of UTF-16 code units (naturals); a    *)
(* Buffer is a sequence of bytes.  An optional value is a sequence of      *)
(* length 0 (undefined) or 1 (the value).                                  *)
(***************************************************************************)
EXTENDS Integers, Sequences, FiniteSets, TLC

\* ------------------------------------------------------------------------
\* Optional values and JavaScript truthiness of strings and numbers
\* ------------------------------------------------------------------------

None == <<>>

Some(v) == <<v>>

\* `x` used as a condition, x an optional string: undefined and '' are falsy.
Truthy(opt) == opt /= None /\ opt[1] /= <<>>

\* `x || dflt` for an optional string or number whose falsy values are
\* undefined and `falsy` ('' or 0).
OrElse(opt, falsy, dflt) == IF opt /= None /\ opt[1] /= falsy THEN opt[1] ELSE dflt

\* ------------------------------------------------------------------------
\* Sequences
\* ------------------------------------------------------------------------

Min(S) == CHOOSE x \in S : \A y \in S : x <= y

Max(S) == CHOOSE x \in S : \A y \in S : x >= y

\* The concatenation of the sequences pieces[lo], ..., pieces[hi].
RECURSIVE FlattenRange(_, _, _)
FlattenRange(pieces, lo, hi) ==
    IF lo > hi THEN <<>>
    ELSE IF lo = hi THEN pieces[lo]
    ELSE FlattenRange(pieces, lo, (lo + hi) \div 2)
         \o FlattenRange(pieces, (lo + hi) \div 2 + 1, hi)

Flatten(pieces) == FlattenRange(pieces, 1, Len(pieces))

\* ------------------------------------------------------------------------
\* Buffer.from(string) : UTF-16 code units -> UTF-8 bytes
\* ------------------------------------------------------------------------

IsHighSurrogate(c) == c >= 55296 /\ c <= 56319

IsLowSurrogate(c) == c >= 56320 /\ c <= 57343

\* The UTF-8 bytes of a code point.
Utf8OfCodePoint(cp) ==
    IF cp < 128 THEN <<cp>>
    ELSE IF cp < 2048 THEN <<192 + (cp \div 64), 128 + (cp % 64)>>
    ELSE IF cp < 65536 THEN
        <<224 + (cp \div 4096), 128 + ((cp \div 64) % 64), 128 + (cp % 64)>>
    ELSE <<240 + (cp \div 262144), 128 + ((cp \div 4096) % 64),
           128 + ((cp \div 64) % 64), 128 + (cp % 64)>>

\* The bytes the code unit at i contributes: a high surrogate followed by a
\* low one gives the 4 bytes of their code point and the low one nothing
\* more; an unpaired surrogate gives the bytes of U+FFFD.
Utf8At(s, i) ==
    IF IsHighSurrogate(s[i]) /\ i < Len(s) /\ IsLowSurrogate(s[i + 1]) THEN
        Utf8OfCodePoint(65536 + (s[i] - 55296) * 1024 + (s[i + 1] - 56320))
    ELSE IF IsLowSurrogate(s[i]) /\ i > 1 /\ IsHighSurrogate(s[i - 1]) THEN <<>>
    ELSE IF IsHighSurrogate(s[i]) \/ IsLowSurrogate(s[i]) THEN <<239, 191, 189>>
    ELSE Utf8OfCodePoint(s[i])

Utf8EncodeLatin1(s) == [i \in 1..Len(s) |-> s[i] % 256]

Utf8Encode(s) == Flatten([i \in 1..Len(s) |-> Utf8At(s, i)])

\* ------------------------------------------------------------------------
\* buffer.toString('utf-8') : bytes -> UTF-16 code units.  An ill-formed
\* sequence decodes to one U+FFFD per maximal subpart (WHATWG decoder).
\* ------------------------------------------------------------------------

Utf16OfCodePoint(cp) ==
    IF cp < 65536 THEN <<cp>>
    ELSE <<55296 + ((cp - 65536) \div 1024), 56320 + ((cp - 65536) % 1024)>>

\* The number of continuation bytes a lead byte asks for; 0 for other bytes.
Utf8Need(c) ==
    IF c >= 194 /\ c <= 223 THEN 1
    ELSE IF c >= 224 /\ c <= 239 THEN 2
    ELSE IF c >= 240 /\ c <= 244 THEN 3
    ELSE 0

\* Whether x may be the k-th continuation byte after lead byte c.
IsContinuation(c, k, x) ==
    /\ x >= (IF k = 1 /\ c = 224 THEN 160 ELSE IF k = 1 /\ c = 240 THEN 144 ELSE 128)
    /\ x <= (IF k = 1 /\ c = 237 THEN 159 ELSE IF k = 1 /\ c = 244 THEN 143 ELSE 191)

\* How many of the continuation bytes the lead byte at i asks for follow it.
Utf8Run(b, i) ==
    Max({ v \in 0..Utf8Need(b[i]) :
            \A k \in 1..v : i + k <= Len(b) /\ IsContinuation(b[i], k, b[i + k]) })

\* The code point of the complete sequence led by the byte at i.
Utf8CodePoint(b, i) ==
    IF Utf8Need(b[i]) = 1 THEN (b[i] - 192) * 64 + (b[i + 1] - 128)
    ELSE IF Utf8Need(b[i]) = 2 THEN
        (b[i] - 224) * 4096 + (b[i + 1] - 128) * 64 + (b[i + 2] - 128)
    ELSE (b[i] - 240) * 262144 + (b[i + 1] - 128) * 4096 + (b[i + 2] - 128) * 64
         + (b[i + 3] - 128)

\* The code units the byte at i contributes: an ASCII byte itself, a lead
\* byte its code point (U+FFFD when its sequence is cut short), a byte
\* taken by the sequence of an earlier lead byte nothing, any other U+FFFD.
Utf16At(b, i) ==
    IF b[i] < 128 THEN <<b[i]>>
    ELSE IF Utf8Need(b[i]) > 0 THEN
        (IF Utf8Run(b, i) = Utf8Need(b[i]) THEN Utf16OfCodePoint(Utf8CodePoint(b, i))
         ELSE <<65533>>)
    ELSE IF b[i] <= 191 /\ \E k \in 1..3 : i - k >= 1 /\ Utf8Run(b, i - k) >= k THEN <<>>
    ELSE <<65533>>

Utf8Decode(b) == Flatten([i \in 1..Len(b) |-> Utf16At(b, i)])

\* ------------------------------------------------------------------------
\* buffer.toString('base64') and Buffer.from(data, 'base64url')
\* ------------------------------------------------------------------------

\* The character of the standard base64 alphabet for a 6-bit value.
Base64Char(v) ==
    IF v < 26 THEN 65 + v
    ELSE IF v < 52 THEN 97 + (v - 26)
    ELSE IF v < 62 THEN 48 + (v - 52)
    ELSE IF v = 62 THEN 43
    ELSE 47

\* Byte k of b, 0 beyond its end.
ByteOrZero(b, k) == IF k <= Len(b) THEN b[k] ELSE 0

\* Character i of the encoding: 4 characters per group of 3 bytes, '=' where
\* the last group has no byte.
Base64At(b, i) ==
    LET first == 3 * ((i - 1) \div 4) + 1
        b1 == b[first]
        b2 == ByteOrZero(b, first + 1)
        b3 == ByteOrZero(b, first + 2)
    IN CASE (i - 1) % 4 = 0 -> Base64Char(b1 \div 4)
         [] (i - 1) % 4 = 1 -> Base64Char((b1 % 4) * 16 + (b2 \div 16))
         [] (i - 1) % 4 = 2 -> IF first + 1 > Len(b) THEN 61
                               ELSE Base64Char((b2 % 16) * 4 + (b3 \div 64))
         [] (i - 1) % 4 = 3 -> IF first + 2 > Len(b) THEN 61 ELSE Base64Char(b3 % 64)

Base64Encode(b) == [i \in 1..(4 * ((Len(b) + 2) \div 3)) |-> Base64At(b, i)]

\* The 6-bit value of a character, in the standard or the URL-safe alphabet;
\* 64 for a character of neither alphabet.
Base64ValueUrlOnly(c) ==
    IF c >= 65 /\ c <= 90 THEN c - 65
    ELSE IF c >= 97 /\ c <= 122 THEN c - 97 + 26
    ELSE IF c >= 48 /\ c <= 57 THEN c - 48 + 52
    ELSE IF c = 45 THEN 62
    ELSE IF c = 95 THEN 63
    ELSE 64

Base64Value(c) ==
    IF c >= 65 /\ c <= 90 THEN c - 65
    ELSE IF c >= 97 /\ c <= 122 THEN c - 97 + 26
    ELSE IF c >= 48 /\ c <= 57 THEN c - 48 + 52
    ELSE IF c = 43 \/ c = 45 THEN 62
    ELSE IF c = 47 \/ c = 95 THEN 63
    ELSE 64

IsBase64Char(c) == Base64Value(c) /= 64

\* The legal characters before the first '='; characters of neither
\* alphabet are skipped.
Base64Legal(s) ==
    LET pads == { i \in 1..Len(s) : s[i] = 61 }
        stop == IF pads = {} THEN Len(s) + 1 ELSE Min(pads)
    IN SelectSeq(SubSeq(s, 1, stop - 1), IsBase64Char)

\* Byte j of the decoding of the legal characters q: 3 bytes per group of 4
\* characters.
Base64ByteAt(q, j) ==
    LET first == 4 * ((j - 1) \div 3) + 1
        v(k) == Base64Value(q[first + k])
    IN CASE (j - 1) % 3 = 0 -> v(0) * 4 + (v(1) \div 16)
         [] (j - 1) % 3 = 1 -> (v(1) % 16) * 16 + (v(2) \div 4)
         [] (j - 1) % 3 = 2 -> (v(2) % 4) * 64 + v(3)

\* The bytes of the complete groups, and of a last group of 2 or 3
\* characters its 1 or 2 bytes.
Base64Decode(s) ==
    LET q == Base64Legal(s)
    IN [j \in 1..((Len(q) * 6) \div 8) |-> Base64ByteAt(q, j)]

\* ------------------------------------------------------------------------
\* String literals of utils.ts
\* ------------------------------------------------------------------------

\* 'text/plain'
TextPlain == <<116, 101, 120, 116, 47, 112, 108, 97, 105, 110>>

\* 'text/html'
TextHtml == <<116, 101, 120, 116, 47, 104, 116, 109, 108>>

\* 'application/octet-stream'
OctetStream ==
    <<97, 112, 112, 108, 105, 99, 97, 116, 105, 111, 110, 47, 111, 99, 116, 101,
      116, 45, 115, 116, 114, 101, 97, 109>>

\* ------------------------------------------------------------------------
\* Payload tree decoder (utils.ts: extractBody, extractAttachments)
\*
\* A MessagePart is [mimeType, filename, body, parts], each optional; a body
\* is [data, attachmentId, size], each optional.
\* ------------------------------------------------------------------------

\* payload.body?.data as a condition: body present, data present and not ''.
HasInlineData(payload) == payload.body /= None /\ Truthy(payload.body[1].data)

\* Buffer.from(payload.body.data, 'base64url').toString('utf-8')
DecodeData(payload) == Utf8Decode(Base64Decode(payload.body[1].data[1]))

\* The candidates a node itself offers (lines 30-37).
OwnBody(payload) ==
    IF payload.mimeType = Some(TextPlain) /\ HasInlineData(payload)
    THEN [text |-> DecodeData(payload), html |-> <<>>]
    ELSE IF payload.mimeType = Some(TextHtml) /\ HasInlineData(payload)
    THEN [text |-> <<>>, html |-> DecodeData(payload)]
    ELSE [text |-> <<>>, html |-> <<>>]

MergeLastWins(cur, nested) ==
    [text |-> IF nested.text /= <<>> THEN nested.text ELSE cur.text,
     html |-> IF nested.html /= <<>> THEN nested.html ELSE cur.html]

\* if (nested.text) text = text || nested.text; likewise html (lines 42-43).
MergeNested(cur, nested) ==
    [text |-> IF nested.text /= <<>>
              THEN (IF cur.text /= <<>> THEN cur.text ELSE nested.text)
              ELSE cur.text,
     html |-> IF nested.html /= <<>>
              THEN (IF cur.html /= <<>> THEN cur.html ELSE nested.html)
              ELSE cur.html]

RECURSIVE extractBody(_)
RECURSIVE ExtractBodyParts(_, _, _)
\* for (const part of payload.parts) { ... } from part i on (lines 40-44).
ExtractBodyParts(cur, parts, i) ==
    IF i > Len(parts) THEN cur
    ELSE ExtractBodyParts(MergeNested(cur, extractBody(parts[i])), parts, i + 1)

extractBody(payload) ==
    IF payload.parts /= None
    THEN ExtractBodyParts(OwnBody(payload), payload.parts[1], 1)
    ELSE OwnBody(payload)

IsAttachmentByIdOnly(payload) ==
    payload.body /= None /\ Truthy(payload.body[1].attachmentId)

\* payload.filename && payload.body?.attachmentId (line 53)
IsAttachment(payload) ==
    /\ Truthy(payload.filename)
    /\ payload.body /= None
    /\ Truthy(payload.body[1].attachmentId)

\* The AttachmentInfo pushed for a qualifying part (lines 54-59).
AttachmentOf(payload) ==
    [filename |-> payload.filename[1],
     mimeType |-> OrElse(payload.mimeType, <<>>, OctetStream),
     size |-> OrElse(payload.body[1].size, 0, 0),
     attachmentId |-> payload.body[1].attachmentId[1]]

RECURSIVE extractAttachments(_)
RECURSIVE ExtractAttachmentsParts(_, _)
\* attachments.push(...extractAttachments(part)) from part i on (lines 63-65).
ExtractAttachmentsParts(parts, i) ==
    IF i > Len(parts) THEN <<>>
    ELSE extractAttachments(parts[i]) \o ExtractAttachmentsParts(parts, i + 1)

extractAttachments(payload) ==
    (IF IsAttachment(payload) THEN <<AttachmentOf(payload)>> ELSE <<>>)
    \o (IF payload.parts /= None THEN ExtractAttachmentsParts(payload.parts[1], 1)
        ELSE <<>>)

\* ------------------------------------------------------------------------
\* HTML-to-text reducer (utils.ts: stripHtml)
\* ------------------------------------------------------------------------

\* The ASCII lower-case form of a code unit (the /i flag on ASCII patterns).
LowerCase(c) == IF c >= 65 /\ c <= 90 THEN c + 32 ELSE c

\* The literal stands in s at position i.
MatchesAt(s, i, literal) ==
    /\ i + Len(literal) - 1 <= Len(s)
    /\ \A k \in 1..Len(literal) : s[i + k - 1] = literal[k]

MatchesAtIgnoreCase(s, i, literal) ==
    /\ i + Len(literal) - 1 <= Len(s)
    /\ \A k \in 1..Len(literal) : LowerCase(s[i + k - 1]) = literal[k]

\* \s, and the characters String.prototype.trim removes.
WhiteSpace ==
    {9, 10, 11, 12, 13, 32, 160, 5760, 8232, 8233, 8239, 8287, 12288, 65279}
        \cup (8192..8202)

HexDigits == (48..57) \cup (97..102) \cup (65..70)

DecDigits == 48..57

\* s.replace(/pattern/g, replacement) from position i on: matchLen[i] is the
\* length of the match of the pattern at i (0: none), replacement[i] what
\* replaces it.
RECURSIVE ReplaceFrom(_, _, _, _)
ReplaceFrom(s, i, matchLen, replacement) ==
    IF i > Len(s) THEN <<>>
    ELSE IF matchLen[i] > 0
    THEN replacement[i] \o ReplaceFrom(s, i + matchLen[i], matchLen, replacement)
    ELSE <<s[i]>> \o ReplaceFrom(s, i + 1, matchLen, replacement)

\* s.replace(/literal/g, by), and the same under the /i flag.
ReplaceLiteral(s, literal, by) ==
    ReplaceFrom(s, 1,
                [i \in 1..Len(s) |-> IF MatchesAt(s, i, literal) THEN Len(literal) ELSE 0],
                [i \in 1..Len(s) |-> by])

ReplaceLiteralIgnoreCase(s, literal, by) ==
    ReplaceFrom(s, 1,
                [i \in 1..Len(s) |->
                    IF MatchesAtIgnoreCase(s, i, literal) THEN Len(literal) ELSE 0],
                [i \in 1..Len(s) |-> by])

\* The first position from i on whose code unit is outside `units`;
\* Len(s) + 1 when there is none.
FirstOutside(s, i, units) ==
    Min({ j \in i..Len(s) : s[j] \notin units } \cup {Len(s) + 1})

\* /<br\s*\/?>/gi at i
BrLen(s, i) ==
    IF ~MatchesAtIgnoreCase(s, i, <<60, 98, 114>>) THEN 0
    ELSE LET afterSpace == FirstOutside(s, i + 3, WhiteSpace)
             afterSlash == IF afterSpace <= Len(s) /\ s[afterSpace] = 47
                           THEN afterSpace + 1 ELSE afterSpace
         IN IF afterSlash <= Len(s) /\ s[afterSlash] = 62 THEN afterSlash - i + 1 ELSE 0

\* /<[^>]+>/g at i
TagLen(s, i) ==
    LET close == Min({ j \in (i + 1)..Len(s) : s[j] = 62 } \cup {Len(s) + 1})
    IN IF s[i] = 60 /\ close <= Len(s) /\ close >= i + 2 THEN close - i + 1 ELSE 0

HexDigitValue(c) ==
    IF c <= 57 THEN c - 48 ELSE IF c >= 97 THEN c - 97 + 10 ELSE c - 65 + 10

\* parseInt(digits, radix) for a run of n digits of that radix.
RECURSIVE ParseInt(_, _, _)
ParseInt(digits, radix, n) ==
    IF n = 0 THEN 0
    ELSE ParseInt(digits, radix, n - 1) * radix + HexDigitValue(digits[n])

\* String.fromCharCode(n): the code unit n modulo 2^16.
FromCharCode(n) == <<n % 65536>>

\* /&#x([0-9a-fA-F]+);/g at i
HexRefLen(s, i) ==
    IF ~MatchesAt(s, i, <<38, 35, 120>>) THEN 0
    ELSE LET end == FirstOutside(s, i + 3, HexDigits)
         IN IF end > i + 3 /\ end <= Len(s) /\ s[end] = 59 THEN end - i + 1 ELSE 0

\* /&#(\d+);/g at i
DecRefLen(s, i) ==
    IF ~MatchesAt(s, i, <<38, 35>>) THEN 0
    ELSE LET end == FirstOutside(s, i + 2, DecDigits)
         IN IF end > i + 2 /\ end <= Len(s) /\ s[end] = 59 THEN end - i + 1 ELSE 0

\* /\n{3,}/g at i
NewlinesLen(s, i) ==
    IF FirstOutside(s, i, {10}) - i >= 3 THEN FirstOutside(s, i, {10}) - i ELSE 0

\* s.trim()
Trim(s) ==
    LET kept == { i \in 1..Len(s) : s[i] \notin WhiteSpace }
    IN IF kept = {} THEN <<>> ELSE SubSeq(s, Min(kept), Max(kept))

\* The steps of stripHtml, in order (lines 73-87).
StripBr(s) ==
    ReplaceFrom(s, 1, [i \in 1..Len(s) |-> BrLen(s, i)], [i \in 1..Len(s) |-> <<10>>])

StripTags(s) ==
    ReplaceFrom(s, 1, [i \in 1..Len(s) |-> TagLen(s, i)], [i \in 1..Len(s) |-> <<>>])

DecodeNamed(s) ==
    ReplaceLiteral(ReplaceLiteral(ReplaceLiteral(ReplaceLiteral(ReplaceLiteral(
    ReplaceLiteral(ReplaceLiteral(s,
        <<38, 110, 98, 115, 112, 59>>, <<32>>),
        <<38, 97, 109, 112, 59>>, <<38>>),
        <<38, 108, 116, 59>>, <<60>>),
        <<38, 103, 116, 59>>, <<62>>),
        <<38, 113, 117, 111, 116, 59>>, <<34>>),
        <<38, 97, 112, 111, 115, 59>>, <<39>>),
        <<38, 35, 51, 57, 59>>, <<39>>)

DecodeHexRefs(s) ==
    ReplaceFrom(s, 1, [i \in 1..Len(s) |-> HexRefLen(s, i)],
                [i \in 1..Len(s) |->
                    IF HexRefLen(s, i) = 0 THEN <<>>
                    ELSE FromCharCode(ParseInt(SubSeq(s, i + 3, i + HexRefLen(s, i) - 2),
                                               16, HexRefLen(s, i) - 4))])

DecodeDecRefs(s) ==
    ReplaceFrom(s, 1, [i \in 1..Len(s) |-> DecRefLen(s, i)],
                [i \in 1..Len(s) |->
                    IF DecRefLen(s, i) = 0 THEN <<>>
                    ELSE FromCharCode(ParseInt(SubSeq(s, i + 2, i + DecRefLen(s, i) - 2),
                                               10, DecRefLen(s, i) - 3))])

CollapseNewlines(s) ==
    ReplaceFrom(s, 1, [i \in 1..Len(s) |-> NewlinesLen(s, i)],
                [i \in 1..Len(s) |-> <<10, 10>>])

stripHtml(html) ==
    Trim(CollapseNewlines(DecodeDecRefs(DecodeHexRefs(DecodeNamed(StripTags(
        ReplaceLiteralIgnoreCase(
            ReplaceLiteralIgnoreCase(StripBr(html), <<60, 47, 112, 62>>, <<10, 10>>),
            <<60, 47, 100, 105, 118, 62>>, <<10>>)))))))

\* ------------------------------------------------------------------------
\* MIME message builder (utils.ts: buildMimeMessage)
\*
\* A MimeOptions is [to, subject, cc, bcc, textBody, htmlBody, inReplyTo,
\* references]: to and subject are strings, the others optional strings.
\* ------------------------------------------------------------------------

\* 'To: '
HdrTo == <<84, 111, 58, 32>>

\* 'Cc: '
HdrCc == <<67, 99, 58, 32>>

\* 'Bcc: '
HdrBcc == <<66, 99, 99, 58, 32>>

\* 'Subject: '
HdrSubject == <<83, 117, 98, 106, 101, 99, 116, 58, 32>>

\* 'In-Reply-To: '
HdrInReplyTo == <<73, 110, 45, 82, 101, 112, 108, 121, 45, 84, 111, 58, 32>>

\* 'References: '
HdrReferences == <<82, 101, 102, 101, 114, 101, 110, 99, 101, 115, 58, 32>>

\* 'MIME-Version: 1.0'
HdrMimeVersion ==
    <<77, 73, 77, 69, 45, 86, 101, 114, 115, 105, 111, 110, 58, 32, 49, 46, 48>>

\* 'Content-Type: multipart/alternative; boundary="'
CtMultipartOpen ==
    <<67, 111, 110, 116, 101, 110, 116, 45, 84, 121, 112, 101, 58, 32, 109,
      117, 108, 116, 105, 112, 97, 114, 116, 47, 97, 108, 116, 101, 114,
      110, 97, 116, 105, 118, 101, 59, 32, 98, 111, 117, 110, 100, 97, 114,
      121, 61, 34>>

\* 'Content-Type: text/plain; charset=UTF-8'
CtTextPlain ==
    <<67, 111, 110, 116, 101, 110, 116, 45, 84, 121, 112, 101, 58, 32, 116,
      101, 120, 116, 47, 112, 108, 97, 105, 110, 59, 32, 99, 104, 97, 114,
      115, 101, 116, 61, 85, 84, 70, 45, 56>>

\* 'Content-Type: text/html; charset=UTF-8'
CtTextHtml ==
    <<67, 111, 110, 116, 101, 110, 116, 45, 84, 121, 112, 101, 58, 32, 116,
      101, 120, 116, 47, 104, 116, 109, 108, 59, 32, 99, 104, 97, 114, 115,
      101, 116, 61, 85, 84, 70, 45, 56>>

\* 'Content-Transfer-Encoding: base64'
CteBase64 ==
    <<67, 111, 110, 116, 101, 110, 116, 45, 84, 114, 97, 110, 115, 102, 101,
      114, 45, 69, 110, 99, 111, 100, 105, 110, 103, 58, 32, 98, 97, 115,
      101, 54, 52>>

\* '----boundary_'
BoundaryPrefix == <<45, 45, 45, 45, 98, 111, 117, 110, 100, 97, 114, 121, 95>>

\* '\r\n'
CRLF == <<13, 10>>

\* `----boundary_${Date.now()}_${Math.random().toString(36).slice(2)}`, given
\* the digits of the clock and of the random number (line 102).
Boundary(now, random) == BoundaryPrefix \o now \o <<95>> \o random

\* The line `${name}${value}` when the optional value is truthy (lines 94-98).
OptionalHeader(name, opt) == IF Truthy(opt) THEN <<name \o opt[1]>> ELSE <<>>

\* Buffer.from(text).toString('base64')
Base64OfText(text) == Base64Encode(Utf8Encode(text))

\* The header lines (lines 93-99).
HeaderLines(options) ==
    <<HdrTo \o options.to>>
    \o OptionalHeader(HdrCc, options.cc)
    \o OptionalHeader(HdrBcc, options.bcc)
    \o <<HdrSubject \o options.subject>>
    \o OptionalHeader(HdrInReplyTo, options.inReplyTo)
    \o OptionalHeader(HdrReferences, options.references)
    \o <<HdrMimeVersion>>

\* The Content-Type header and the body (lines 101-126).
BodyLines(options, boundary) ==
    IF Truthy(options.htmlBody) /\ Truthy(options.textBody) THEN
        << CtMultipartOpen \o boundary \o <<34>>,
           <<>>,
           <<45, 45>> \o boundary,
           CtTextPlain,
           CteBase64,
           <<>>,
           Base64OfText(options.textBody[1]),
           <<45, 45>> \o boundary,
           CtTextHtml,
           CteBase64,
           <<>>,
           Base64OfText(options.htmlBody[1]),
           <<45, 45>> \o boundary \o <<45, 45>> >>
    ELSE IF Truthy(options.htmlBody) THEN
        << CtTextHtml, CteBase64, <<>>, Base64OfText(options.htmlBody[1]) >>
    ELSE
        << CtTextPlain, CteBase64, <<>>,
           Base64OfText(OrElse(options.textBody, <<>>, <<>>)) >>

\* lines.join(sep)
RECURSIVE JoinFrom(_, _, _)
JoinFrom(lines, sep, i) ==
    IF i > Len(lines) THEN <<>>
    ELSE IF i = Len(lines) THEN lines[i]
    ELSE lines[i] \o sep \o JoinFrom(lines, sep, i + 1)

Join(lines, sep) == JoinFrom(lines, sep, 1)

\* .replace(/\+/g, '-').replace(/\//g, '_')
ReplaceUnsafe(s) ==
    [i \in 1..Len(s) |-> IF s[i] = 43 THEN 45 ELSE IF s[i] = 47 THEN 95 ELSE s[i]]

\* .replace(/=+$/, '')
RECURSIVE StripPadding(_)
StripPadding(s) ==
    IF s /= <<>> /\ s[Len(s)] = 61 THEN StripPadding(SubSeq(s, 1, Len(s) - 1)) ELSE s

\* The raw message: the lines joined by CRLF, as URL-safe base64 without
\* padding (lines 128-133).
buildMimeMessage(options, boundary) ==
    StripPadding(ReplaceUnsafe(Base64Encode(Utf8Encode(
        Join(HeaderLines(options) \o BodyLines(options, boundary), CRLF)))))

\* The MimeOptions interface (lines 11-20).
MimeOptions(to, subject, cc, bcc, textBody, htmlBody, inReplyTo, references) ==
    [to |-> to, subject |-> subject, cc |-> cc, bcc |-> bcc, textBody |-> textBody,
     htmlBody |-> htmlBody, inReplyTo |-> inReplyTo, references |-> references]

\* ------------------------------------------------------------------------
\* getHeader (utils.ts) and GmailClient (gmail-client.ts): what each method
\* computes around its Mailbox Service calls.  A header is [name, value],
\* each optional.
\* ------------------------------------------------------------------------

\* String.prototype.toLowerCase on the header names in use (ASCII).
ToLowerCase(s) == [i \in 1..Len(s) |-> LowerCase(s[i])]

\* headers?.find(h => h.name === name)?.value ?? undefined
getHeaderCaseSensitive(headers, name) ==
    IF headers = None THEN None
    ELSE LET list == headers[1]
             found == { i \in 1..Len(list) : list[i].name = Some(name) }
         IN IF found = {} THEN None ELSE list[Min(found)].value

\* headers?.find(h => h.name?.toLowerCase() === name.toLowerCase())?.value
\* ?? undefined
getHeader(headers, name) ==
    IF headers = None THEN None
    ELSE LET list == headers[1]
             found == { i \in 1..Len(list) :
                          /\ list[i].name /= None
                          /\ ToLowerCase(list[i].name[1]) = ToLowerCase(name) }
         IN IF found = {} THEN None ELSE list[Min(found)].value

NameFrom == <<70, 114, 111, 109>>

NameTo == <<84, 111>>

NameCc == <<67, 99>>

NameSubject == <<83, 117, 98, 106, 101, 99, 116>>

NameDate == <<68, 97, 116, 101>>

NameMessageId == <<77, 101, 115, 115, 97, 103, 101, 45, 73, 68>>

NameReferences == <<82, 101, 102, 101, 114, 101, 110, 99, 101, 115>>

\* getHeader(headers, name) || ''
HeaderOrEmpty(headers, name) == OrElse(getHeader(headers, name), <<>>, <<>>)

\* x.payload?.headers
HeadersOf(payload) == IF payload = None THEN None ELSE payload[1].headers

\* maxResults: number = 10
DefaultMaxResults == 10

\* The requests of the two-phase operations.
ListMessagesRequest(query, maxResults, pageToken) ==
    [op |-> "messages.list", q |-> query,
     maxResults |-> IF maxResults = None THEN DefaultMaxResults ELSE maxResults[1],
     pageToken |-> pageToken]

ListDraftsRequest(maxResults, pageToken) ==
    [op |-> "drafts.list",
     maxResults |-> IF maxResults = None THEN DefaultMaxResults ELSE maxResults[1],
     pageToken |-> pageToken]

\* messages.get({ id, format, metadataHeaders })
GetMessageRequest(id, format, metadataHeaders) ==
    [op |-> "messages.get", id |-> id, format |-> format,
     metadataHeaders |-> metadataHeaders]

GetDraftRequest(id) == [op |-> "drafts.get", id |-> id, format |-> "metadata"]

\* The detail request of a listed message (lines 113-118) or draft (lines
\* 321-325): msg.id!, which is whatever the list call returned as id.
MessageDetailRequest(msg) ==
    GetMessageRequest(msg.id, "metadata", <<NameFrom, NameTo, NameSubject, NameDate>>)

DraftDetailRequest(draft) == GetDraftRequest(draft.id)

\* The EmailSummary of a detail response (lines 119-128).
MessageSummary(data) ==
    LET headers == HeadersOf(data.payload)
    IN [id |-> OrElse(data.id, <<>>, <<>>),
        threadId |-> OrElse(data.threadId, <<>>, <<>>),
        snippet |-> OrElse(data.snippet, <<>>, <<>>),
        from |-> HeaderOrEmpty(headers, NameFrom),
        to |-> HeaderOrEmpty(headers, NameTo),
        subject |-> HeaderOrEmpty(headers, NameSubject),
        date |-> HeaderOrEmpty(headers, NameDate)]

\* The DraftSummary of a detail response (lines 326-333).
DraftSummary(data) ==
    LET message == data.message
        headers == IF message = None THEN None ELSE HeadersOf(message[1].payload)
    IN [draftId |-> OrElse(data.id, <<>>, <<>>),
        messageId |-> IF message = None THEN <<>> ELSE OrElse(message[1].id, <<>>, <<>>),
        snippet |-> IF message = None THEN <<>>
                    ELSE OrElse(message[1].snippet, <<>>, <<>>),
        subject |-> HeaderOrEmpty(headers, NameSubject),
        to |-> HeaderOrEmpty(headers, NameTo)]

\* { emails, nextPageToken: res.data.nextPageToken ?? undefined }
SearchResult(emails, nextPageToken) ==
    [emails |-> emails, nextPageToken |-> nextPageToken]

DraftsResult(drafts, nextPageToken) ==
    [drafts |-> drafts, nextPageToken |-> nextPageToken]

\* The messages of TypeError a JavaScript engine gives to the read of
\* payload.mimeType when payload is undefined (V8, JavaScriptCore).
TypeErrorMessages ==
    { <<67, 97, 110, 110, 111, 116, 32, 114, 101, 97, 100, 32, 112, 114, 111, 112,
        101, 114, 116, 105, 101, 115, 32, 111, 102, 32, 117, 110, 100, 101, 102, 105,
        110, 101, 100, 32, 40, 114, 101, 97, 100, 105, 110, 103, 32, 39, 109, 105,
        109, 101, 84, 121, 112, 101, 39, 41>>,
      <<117, 110, 100, 101, 102, 105, 110, 101, 100, 32, 105, 115, 32, 110, 111, 116,
        32, 97, 110, 32, 111, 98, 106, 101, 99, 116, 32, 40, 101, 118, 97, 108, 117,
        97, 116, 105, 110, 103, 32, 39, 112, 97, 121, 108, 111, 97, 100, 46, 109,
        105, 109, 101, 84, 121, 112, 101, 39, 41>> }

\* How an asynchronous function ends.
Return(value) == [kind |-> "return", value |-> value]

Throw(error) == [kind |-> "throw", error |-> error]

\* extractBody(res.data.payload!) evaluates payload.mimeType: with no
\* payload in the response this read throws (line 143; the `!` is erased
\* at compilation).
GetEmailThrows(data) == data.payload = None

\* The EmailDetail of a full response that has a payload (lines 142-159).
EmailDetail(data) ==
    LET headers == HeadersOf(data.payload)
        bodies == extractBody(data.payload[1])
        attachments == extractAttachments(data.payload[1])
    IN [id |-> OrElse(data.id, <<>>, <<>>),
        threadId |-> OrElse(data.threadId, <<>>, <<>>),
        labelIds |-> IF data.labelIds = None THEN <<>> ELSE data.labelIds[1],
        from |-> HeaderOrEmpty(headers, NameFrom),
        to |-> HeaderOrEmpty(headers, NameTo),
        cc |-> HeaderOrEmpty(headers, NameCc),
        subject |-> HeaderOrEmpty(headers, NameSubject),
        date |-> HeaderOrEmpty(headers, NameDate),
        body |-> IF bodies.text /= <<>> THEN bodies.text
                 ELSE IF bodies.html /= <<>> THEN stripHtml(bodies.html) ELSE <<>>,
        htmlBody |-> bodies.html,
        attachments |-> attachments]

\* getEmail after its fetch: the detail, or the TypeError of message `msg`.
getEmail(data, msg) ==
    IF GetEmailThrows(data) THEN Throw([name |-> "TypeError", message |-> msg])
    ELSE Return(EmailDetail(data))

\* textBody: isHtml ? undefined : body, htmlBody: isHtml ? body : undefined
ComposeOptions(to, subject, cc, bcc, body, isHtml, inReplyTo, references) ==
    MimeOptions(to, subject, cc, bcc,
                IF isHtml THEN None ELSE Some(body),
                IF isHtml THEN Some(body) ELSE None,
                inReplyTo, references)

\* sendEmail and createDraft (lines 170-177, 282-289).
SendOptions(args) ==
    ComposeOptions(args.to, args.subject, args.cc, args.bcc, args.body, args.isHtml,
                   None, None)

RePrefix == <<82, 101, 58>>

FwdPrefix == <<70, 119, 100, 58>>

\* s.startsWith(prefix)
StartsWith(s, prefix) == Len(s) >= Len(prefix) /\ SubSeq(s, 1, Len(prefix)) = prefix

\* list.filter(Boolean).join(sep)
JoinNonEmpty(list, sep) == Join(SelectSeq(list, LAMBDA s : s /= <<>>), sep)

\* originalSubject.startsWith('Re:') ? originalSubject : `Re: ${originalSubject}`
ReplySubjectAlways(originalSubject) == RePrefix \o <<32>> \o originalSubject

ReplySubject(originalSubject) ==
    IF StartsWith(originalSubject, RePrefix) THEN originalSubject
    ELSE RePrefix \o <<32>> \o originalSubject

\* replyAll ? [originalTo, originalCc].filter(Boolean).join(', ') : undefined
ReplyCcUnfiltered(originalTo, originalCc, replyAll) ==
    IF replyAll THEN Some(Join(<<originalTo, originalCc>>, <<44, 32>>)) ELSE None

ReplyCc(originalTo, originalCc, replyAll) ==
    IF replyAll THEN Some(JoinNonEmpty(<<originalTo, originalCc>>, <<44, 32>>))
    ELSE None

\* originalReferences ? `${originalReferences} ${originalMessageId}` : originalMessageId
ReplyReferences(originalReferences, originalMessageId) ==
    IF originalReferences /= <<>>
    THEN originalReferences \o <<32>> \o originalMessageId
    ELSE originalMessageId

\* The options of a reply to the message of metadata `data` (lines 201-227).
ReplyOptions(data, args) ==
    LET headers == HeadersOf(data.payload)
        originalFrom == HeaderOrEmpty(headers, NameFrom)
        originalTo == HeaderOrEmpty(headers, NameTo)
        originalCc == HeaderOrEmpty(headers, NameCc)
        originalSubject == HeaderOrEmpty(headers, NameSubject)
        originalMessageId == HeaderOrEmpty(headers, NameMessageId)
        originalReferences == HeaderOrEmpty(headers, NameReferences)
    IN ComposeOptions(
           originalFrom,
           ReplySubject(originalSubject),
           ReplyCc(originalTo, originalCc, args.replyAll),
           None, args.body, args.isHtml,
           Some(originalMessageId),
           Some(ReplyReferences(originalReferences, originalMessageId)))

ForwardedSeparator ==
    <<45, 45, 45, 45, 45, 45, 45, 45, 45, 45, 32, 70, 111, 114, 119, 97, 114, 100,
      101, 100, 32, 109, 101, 115, 115, 97, 103, 101, 32, 45, 45, 45, 45, 45, 45, 45,
      45, 45>>

FwdFrom == <<70, 114, 111, 109, 58, 32>>

FwdDate == <<68, 97, 116, 101, 58, 32>>

FwdSubject == <<83, 117, 98, 106, 101, 99, 116, 58, 32>>

FwdTo == <<84, 111, 58, 32>>

\* The body of a forward of `email` (lines 249-258).
ForwardedBody(email) ==
    Join(<< <<>>, ForwardedSeparator,
            FwdFrom \o email.from, FwdDate \o email.date,
            FwdSubject \o email.subject, FwdTo \o email.to,
            <<>>, email.body >>, <<10>>)

\* email.subject.startsWith('Fwd:') ? email.subject : `Fwd: ${email.subject}`
ForwardSubject(subject) ==
    IF StartsWith(subject, FwdPrefix) THEN subject ELSE FwdPrefix \o <<32>> \o subject

\* The options of a forward of `email` (lines 245-264).
ForwardOptions(email, args) ==
    MimeOptions(args.to, ForwardSubject(email.subject),
                None, None, Some(ForwardedBody(email)), None, None, None)

\* messages.send({ requestBody: { raw, threadId } })
SendMessageRequest(raw, threadId) ==
    [op |-> "messages.send", raw |-> raw, threadId |-> threadId]

\* threadId: undefined
ReplyThreadNone(data) == None

\* threadId: original.data.threadId || undefined
ReplyThread(data) == IF Truthy(data.threadId) THEN data.threadId ELSE None

CreateDraftRequest(raw) == [op |-> "drafts.create", raw |-> raw]

\* messages.modify({ id, requestBody: { addLabelIds: removeLabelIds,
\* removeLabelIds: addLabelIds } })
ModifyRequestSwapped(id, addLabelIds, removeLabelIds) ==
    [op |-> "messages.modify", id |-> id, addLabelIds |-> removeLabelIds,
     removeLabelIds |-> addLabelIds]

\* messages.modify({ id, requestBody: { addLabelIds, removeLabelIds } })
ModifyRequest(id, addLabelIds, removeLabelIds) ==
    [op |-> "messages.modify", id |-> id, addLabelIds |-> addLabelIds,
     removeLabelIds |-> removeLabelIds]

LabelInbox == <<73, 78, 66, 79, 88>>

LabelUnread == <<85, 78, 82, 69, 65, 68>>

DefaultBackground == <<35, 48, 48, 48, 48, 48, 48>>

DefaultTextColor == <<35, 102, 102, 102, 102, 102, 102>>

\* The request body of createLabel (lines 414-425).
CreateLabelRequest(args) ==
    [op |-> "labels.create", name |-> args.name,
     labelListVisibility |-> "labelShow", messageListVisibility |-> "show",
     color |-> IF Truthy(args.backgroundColor) \/ Truthy(args.textColor)
               THEN Some([backgroundColor |->
                              OrElse(args.backgroundColor, <<>>, DefaultBackground),
                          textColor |-> OrElse(args.textColor, <<>>, DefaultTextColor)])
               ELSE None]

\* The request of a tool that makes one call and no fetch before it; the
\* boundary is the one buildMimeMessage would draw.
SingleRequest(tool, args, boundary) ==
    CASE tool = "send_email" ->
           SendMessageRequest(buildMimeMessage(SendOptions(args), boundary), None)
      [] tool = "create_draft" ->
           CreateDraftRequest(buildMimeMessage(SendOptions(args), boundary))
      [] tool = "send_draft" -> [op |-> "drafts.send", id |-> args.draftId]
      [] tool = "delete_draft" -> [op |-> "drafts.delete", id |-> args.draftId]
      [] tool = "trash_email" -> [op |-> "messages.trash", id |-> args.messageId]
      [] tool = "archive_email" ->
           ModifyRequest(args.messageId, None, Some(<<LabelInbox>>))
      [] tool = "mark_as_read" ->
           ModifyRequest(args.messageId, None, Some(<<LabelUnread>>))
      [] tool = "mark_as_unread" ->
           ModifyRequest(args.messageId, Some(<<LabelUnread>>), None)
      [] tool = "list_labels" -> [op |-> "labels.list"]
      [] tool = "create_label" -> CreateLabelRequest(args)
      [] tool = "apply_label" ->
           ModifyRequest(args.messageId, Some(<<args.labelId>>), None)
      [] tool = "remove_label" ->
           ModifyRequest(args.messageId, None, Some(<<args.labelId>>))
      [] tool = "get_attachment" ->
           [op |-> "attachments.get", messageId |-> args.messageId,
            id |-> args.attachmentId]

\* The fetch that get_email, reply_to_email and forward_email begin with.
FetchRequest(tool, args) ==
    IF tool = "reply_to_email"
    THEN GetMessageRequest(Some(args.messageId), "metadata",
             <<NameFrom, NameTo, NameCc, NameSubject, NameMessageId, NameReferences>>)
    ELSE GetMessageRequest(Some(args.messageId), "full", None)

\* { messageId: res.data.id || '', threadId: res.data.threadId || '' }
SentResult(data) ==
    [messageId |-> OrElse(data.id, <<>>, <<>>),
     threadId |-> OrElse(data.threadId, <<>>, <<>>)]

TypeUser == <<117, 115, 101, 114>>

\* The LabelInfo of a listed label (lines 397-403).
LabelInfo(label) ==
    [id |-> OrElse(label.id, <<>>, <<>>), name |-> OrElse(label.name, <<>>, <<>>),
     type |-> OrElse(label.type, <<>>, <<>>),
     messagesTotal |-> label.messagesTotal, messagesUnread |-> label.messagesUnread]

\* What the client method of `tool` returns from the data of its last call.
ClientResult(tool, data) ==
    CASE tool \in {"send_email", "reply_to_email", "forward_email", "send_draft"} ->
           SentResult(data)
      [] tool = "create_draft" ->
           [draftId |-> OrElse(data.id, <<>>, <<>>),
            messageId |-> IF data.message = None THEN <<>>
                          ELSE OrElse(data.message[1].id, <<>>, <<>>)]
      [] tool = "list_labels" ->
           IF data.labels = None THEN <<>>
           ELSE [i \in 1..Len(data.labels[1]) |-> LabelInfo(data.labels[1][i])]
      [] tool = "create_label" ->
           [id |-> OrElse(data.id, <<>>, <<>>), name |-> OrElse(data.name, <<>>, <<>>),
            type |-> OrElse(data.type, <<>>, TypeUser)]
      [] tool = "get_attachment" ->
           [data |-> OrElse(data.data, <<>>, <<>>), size |-> OrElse(data.size, 0, 0)]
      [] OTHER -> None

\* ------------------------------------------------------------------------
\* Tool handlers (index.ts)
\* ------------------------------------------------------------------------

\* JSON.stringify(value, null, 2): the text is kept as the value it denotes.
Stringify(value) == <<"JSON", value>>

\* { status, ...result }
WithStatus(status, result) == result @@ ("status" :> status)

\* The value a handler serialises when its client method returned `result`.
Payload(tool, args, result) ==
    CASE tool \in {"search_emails", "get_email", "list_drafts", "list_labels",
                   "get_attachment"} -> result
      [] tool \in {"send_email", "reply_to_email", "send_draft"} ->
           WithStatus("sent", result)
      [] tool = "forward_email" -> WithStatus("forwarded", result)
      [] tool = "create_draft" -> WithStatus("draft_created", result)
      [] tool = "create_label" -> WithStatus("created", result)
      [] tool = "delete_draft" -> [status |-> "deleted", draftId |-> args.draftId]
      [] tool = "trash_email" -> [status |-> "trashed", messageId |-> args.messageId]
      [] tool = "archive_email" -> [status |-> "archived", messageId |-> args.messageId]
      [] tool = "mark_as_read" ->
           [status |-> "marked_read", messageId |-> args.messageId]
      [] tool = "mark_as_unread" ->
           [status |-> "marked_unread", messageId |-> args.messageId]
      [] tool = "apply_label" ->
           [status |-> "label_applied", messageId |-> args.messageId,
            labelId |-> args.labelId]
      [] tool = "remove_label" ->
           [status |-> "label_removed", messageId |-> args.messageId,
            labelId |-> args.labelId]

\* return { content: [{ type: 'text', text: JSON.stringify(...) }] }
SuccessEnvelope(value) == [content |-> <<[type |-> "text", text |-> Stringify(value)]>>]

ErrorPrefix == <<69, 114, 114, 111, 114, 58, 32>>

\* error instanceof Error ? error.message : String(error); every value
\* thrown here is an Error.
ErrorText(error) == error.message

\* return { content: [{ type: 'text', text: `Error: ${...}` }], isError: true }
ErrorEnvelope(error) ==
    [content |-> <<[type |-> "text", text |-> ErrorPrefix \o ErrorText(error)]>>,
     isError |-> TRUE]

CatchRethrows(error) == Throw(error)

\* catch (error) { return <error envelope> }
Catch(error) == Return(ErrorEnvelope(error))

\* try { const result = await gmail.method(...); return <success> }
\* catch (error) { ... } around the completion of the client method.
Handler(tool, args, completion) ==
    IF completion.kind = "return"
    THEN Return(SuccessEnvelope(Payload(tool, args, completion.value)))
    ELSE Catch(completion.error)

\* ------------------------------------------------------------------------
\* Bounded payload trees
\* ------------------------------------------------------------------------

\* The largest number of parts of a payload tree.
MaxNodes == 4

Part(mimeType, filename, body) ==
    [mimeType |-> mimeType, filename |-> filename, body |-> body]

InlineBody(data) == Some([data |-> Some(data), attachmentId |-> None, size |-> Some(2)])

\* Parts that matter to the body: a container without body, two text/plain
\* parts ("Hi", "Yo"), a text/plain part whose non-empty data ("A", a single
\* base64 character) decodes to no byte, and two text/html parts ("<b>",
\* "<i>", in the URL-safe alphabet).
BodyKinds ==
    { Part(Some(<<109, 117, 108, 116, 105, 112, 97, 114, 116, 47, 109, 105, 120, 101, 100>>),
           Some(<<>>), None),
      Part(Some(TextPlain), Some(<<>>), InlineBody(<<83, 71, 107>>)),
      Part(Some(TextPlain), Some(<<>>), InlineBody(<<87, 87, 56>>)),
      Part(Some(TextPlain), Some(<<>>), InlineBody(<<65>>)),
      Part(Some(TextHtml), Some(<<>>), InlineBody(<<80, 71, 73, 45>>)),
      Part(Some(TextHtml), Some(<<>>), InlineBody(<<80, 71, 107, 45>>)) }

AttachmentBody(id, size) == Some([data |-> None, attachmentId |-> Some(id), size |-> size])

\* Parts that matter to the attachments: a container; "f.pdf" with id "a1",
\* size 5 and a mimeType; "g" with the same id, no size and no mimeType; a
\* named part with inline data only; a part with an id and an empty
\* filename; a text/plain part that has inline data, a filename and an id.
AttachmentKinds ==
    { Part(Some(<<109, 117, 108, 116, 105, 112, 97, 114, 116, 47, 109, 105, 120, 101, 100>>),
           Some(<<>>), None),
      Part(Some(<<97, 112, 112, 108, 105, 99, 97, 116, 105, 111, 110, 47, 112, 100, 102>>),
           Some(<<102, 46, 112, 100, 102>>), AttachmentBody(<<97, 49>>, Some(5))),
      Part(None, Some(<<103>>), AttachmentBody(<<97, 49>>, None)),
      Part(Some(TextPlain), Some(<<103>>), InlineBody(<<83, 71, 107>>)),
      Part(Some(TextHtml), Some(<<>>), AttachmentBody(<<97, 50>>, Some(0))),
      Part(Some(TextPlain), Some(<<102, 46, 112, 100, 102>>),
           Some([data |-> Some(<<87, 87, 56>>), attachmentId |-> Some(<<97, 50>>),
                 size |-> Some(7)])) }

WithParts(kind, parts) ==
    [mimeType |-> kind.mimeType, filename |-> kind.filename, body |-> kind.body,
     parts |-> parts]

\* The shapes of the trees of n parts: the depth of each part, the parts
\* taken in document order (the root has depth 0, a part lies at most one
\* level below the part before it).
Shapes(n) ==
    { d \in [1..n -> 0..(n - 1)] :
        d[1] = 0 /\ \A i \in 2..n : d[i] >= 1 /\ d[i] <= d[i - 1] + 1 }

\* The children of part i: the parts one level below it, up to the next
\* part that is not below it.
ChildrenOf(d, n, i) ==
    { j \in (i + 1)..n : d[j] = d[i] + 1 /\ \A k \in (i + 1)..(j - 1) : d[k] > d[i] }

\* The tree of shape d whose part i is of kind kindOf[i]; a leaf has no
\* `parts` field.
RECURSIVE TreeAt(_, _, _, _)
RECURSIVE SubTrees(_, _, _, _)
SubTrees(d, n, kindOf, children) ==
    IF children = {} THEN <<>>
    ELSE <<TreeAt(d, n, kindOf, Min(children))>>
         \o SubTrees(d, n, kindOf, children \ {Min(children)})

TreeAt(d, n, kindOf, i) ==
    WithParts(kindOf[i],
              IF ChildrenOf(d, n, i) = {} THEN None
              ELSE Some(SubTrees(d, n, kindOf, ChildrenOf(d, n, i))))

\* ------------------------------------------------------------------------
\* Promise.all over the detail fetches of a batch (lines 111-130, 319-335)
\* ------------------------------------------------------------------------

\* The promise of n inputs, none settled yet.
PromiseAll(n) == [state |-> "pending", values |-> [i \in 1..n |-> None], reason |-> None]

SettleInArrivalOrder(values, i, v) ==
    [values EXCEPT ![Min({ j \in 1..Len(values) : values[j] = None })] = Some(v)]

\* The value of input i goes to place i of the result.
SettleAt(values, i, v) == [values EXCEPT ![i] = Some(v)]

AllOnFulfilFirst(p, i, v) ==
    IF p.state /= "pending" THEN p
    ELSE [state |-> "fulfilled", values |-> [j \in 1..Len(p.values) |-> Some(v)],
          reason |-> None]

\* Input i fulfilled with v: the whole is fulfilled once every input is.
AllOnFulfil(p, i, v) ==
    IF p.state /= "pending" THEN p
    ELSE LET values == SettleAt(p.values, i, v)
         IN [state |-> IF \A j \in 1..Len(values) : values[j] /= None
                       THEN "fulfilled" ELSE "pending",
             values |-> values, reason |-> None]

AllSkipsRejected(p, i, error) ==
    IF p.state /= "pending" THEN p
    ELSE LET values == [p.values EXCEPT ![i] = Some(None)]
         IN [state |-> IF \A j \in 1..Len(values) : values[j] /= None
                       THEN "fulfilled" ELSE "pending",
             values |-> values, reason |-> None]

\* Input i rejected: the whole is rejected with that reason, unless it was
\* settled before.
AllOnReject(p, i, error) ==
    IF p.state /= "pending" THEN p
    ELSE [state |-> "rejected", values |-> p.values, reason |-> Some(error)]

\* `await Promise.all(...)` once the promise is settled, and the return
\* statement after it (lines 132, 337).
AwaitAll(tool, p, nextPageToken) ==
    IF p.state = "rejected" THEN Throw(p.reason[1])
    ELSE LET summaries == [i \in 1..Len(p.values) |-> p.values[i][1]]
         IN Return(IF tool = "search_emails"
                   THEN SearchResult(summaries, nextPageToken)
                   ELSE DraftsResult(summaries, nextPageToken))

\* ------------------------------------------------------------------------
\* The Mailbox Service: what its calls can answer
\* ------------------------------------------------------------------------

\* The longest list a list call returns.
MaxList == 3

\* The invocations the server handles in a run.
MaxInvocations == 2

Header(name, value) == [name |-> Some(name), value |-> Some(value)]

\* The id of item k: "m1", "m2", ...
ItemId(k) == <<109, 48 + k>>

ThreadIdOf(k) == <<116, 48 + k>>

\* The lists of distinct items.
Listings ==
    { s \in UNION { [1..n -> 1..MaxList] : n \in 0..MaxList } :
        \A i, j \in DOMAIN s : i /= j => s[i] /= s[j] }

ListedItem(k) == [id |-> Some(ItemId(k)), threadId |-> Some(ThreadIdOf(k))]

PageTokens == { None, Some(<<112, 50>>) }

\* The data of a list call: no list at all, or a list and maybe a token.
ListResponses(tool) ==
    LET lists == { [i \in DOMAIN s |-> ListedItem(s[i])] : s \in Listings }
    IN IF tool = "search_emails"
       THEN { [messages |-> None, nextPageToken |-> None] }
            \cup { [messages |-> Some(l), nextPageToken |-> t] :
                     l \in lists, t \in PageTokens }
       ELSE { [drafts |-> None, nextPageToken |-> None] }
            \cup { [drafts |-> Some(l), nextPageToken |-> t] :
                     l \in lists, t \in PageTokens }

\* res.data.messages || [], res.data.drafts || []
ListedItems(tool, data) ==
    IF tool = "search_emails"
    THEN (IF data.messages = None THEN <<>> ELSE data.messages[1])
    ELSE (IF data.drafts = None THEN <<>> ELSE data.drafts[1])

\* The headers the service holds for the message of an id: those of "m1"
\* are complete, those of "m2" are in lower case and lack Subject and one
\* of them lacks its name; every other message has no payload at all.
StoredHeaders(id) ==
    IF id = Some(ItemId(1))
    THEN Some([headers |-> Some(<<Header(NameFrom, <<97, 64, 120, 46, 99, 111, 109>>),
                                  Header(NameTo, <<98, 64, 120, 46, 99, 111, 109>>),
                                  Header(NameSubject, <<72, 105>>),
                                  Header(NameDate, <<77, 111, 110>>)>>)])
    ELSE IF id = Some(ItemId(2))
    THEN Some([headers |-> Some(<<[name |-> None, value |-> Some(<<120>>)],
                                  Header(<<102, 114, 111, 109>>, <<99, 64, 120, 46, 99, 111, 109>>),
                                  Header(<<116, 111>>, <<>>),
                                  Header(NameFrom, <<122>>)>>)])
    ELSE None

\* The data of messages.get (metadata) for a listed message.
MessageData(id) ==
    [id |-> id, threadId |-> IF id = Some(ItemId(2)) THEN None ELSE Some(<<116>> \o Tail(id[1])),
     snippet |-> IF id = Some(ItemId(1)) THEN Some(<<72, 105>>) ELSE None,
     payload |-> StoredHeaders(id)]

\* The data of drafts.get for a listed draft.
DraftData(id) ==
    [id |-> id,
     message |-> IF id = Some(ItemId(3)) THEN None
                 ELSE Some([id |-> Some(<<120>> \o Tail(id[1])), snippet |-> None,
                            payload |-> StoredHeaders(id)])]

DetailRequest(tool, item) ==
    IF tool = "search_emails" THEN MessageDetailRequest(item) ELSE DraftDetailRequest(item)

\* The summary the mapped function returns for the detail data of a request.
Summary(tool, request) ==
    IF tool = "search_emails" THEN MessageSummary(MessageData(request.id))
    ELSE DraftSummary(DraftData(request.id))

\* The error a detail fetch rejects with: "Not Found: " and the id asked for.
DetailFailures(request) ==
    { [name |-> "Error",
       message |-> <<78, 111, 116, 32, 70, 111, 117, 110, 100, 58, 32>> \o request.id[1]] }

\* The errors any other service call rejects with.
Failures ==
    { [name |-> "Error", message |-> <<78, 111, 116, 32, 70, 111, 117, 110, 100>>],
      [name |-> "Error",
       message |-> <<82, 97, 116, 101, 32, 76, 105, 109, 105, 116, 32, 69, 120, 99,
                     101, 101, 100, 101, 100>>] }

\* A payload tree with the headers of the message at its root.
RootPayload(part, headers) ==
    [mimeType |-> part.mimeType, filename |-> part.filename, body |-> part.body,
     parts |-> part.parts, headers |-> headers]

Multipart ==
    Part(Some(<<109, 117, 108, 116, 105, 112, 97, 114, 116, 47, 109, 105, 120, 101, 100>>),
         Some(<<>>), None)

\* The headers of a stored message: From, To, Cc, Subject, Date, and
\* Message-ID and References where the request names them.
FullHeaders(subject) ==
    Some(<<Header(NameFrom, <<97, 64, 120, 46, 99, 111, 109>>),
           Header(NameTo, <<98, 64, 120, 46, 99, 111, 109>>),
           Header(NameCc, <<99, 64, 120, 46, 99, 111, 109>>),
           Header(NameSubject, subject),
           Header(NameDate, <<77, 111, 110>>),
           Header(NameMessageId, <<60, 49, 64, 120, 62>>),
           Header(NameReferences, <<60, 48, 64, 120, 62>>)>>)

\* The payload trees of messages.get (full): a text/plain part "Hi"; a
\* part with neither mimeType, body nor parts; a multipart whose first part
\* has data that is no base64 ("!!"), then "<b>Hi</b>" as text/html, then
\* the attachment "f.pdf"; a multipart whose parts lack body or data.
FullPayloads ==
    { RootPayload(WithParts(Part(Some(TextPlain), Some(<<>>), InlineBody(<<83, 71, 107>>)),
                            None),
                  FullHeaders(<<72, 105>>)),
      RootPayload(WithParts(Part(None, None, None), None), None),
      RootPayload(
          WithParts(Multipart,
              Some(<<WithParts(Part(Some(TextPlain), Some(<<>>), InlineBody(<<33, 33>>)),
                               None),
                     WithParts(Part(Some(TextHtml), Some(<<>>),
                                    InlineBody(<<80, 71, 73, 45, 83, 71, 107, 56, 76,
                                                 50, 73, 45>>)), None),
                     WithParts(Part(Some(<<97, 112, 112, 108, 105, 99, 97, 116, 105,
                                           111, 110, 47, 112, 100, 102>>),
                                    Some(<<102, 46, 112, 100, 102>>),
                                    AttachmentBody(<<97, 49>>, Some(5))), None)>>)),
          FullHeaders(<<70, 119, 100, 58, 32, 72, 105>>)),
      RootPayload(
          WithParts(Multipart,
              Some(<<WithParts(Part(Some(TextPlain), None, None), None),
                     WithParts(Part(Some(TextHtml), Some(<<>>),
                                    Some([data |-> None, attachmentId |-> None,
                                          size |-> None])), None)>>)),
          None) }

\* The data of messages.get (full): a message with one of the payload
\* trees, or one without payload.
FullResponses(id) ==
    { [id |-> Some(id), threadId |-> Some(<<116, 49>>),
       labelIds |-> Some(<<LabelInbox>>), payload |-> Some(p)] : p \in FullPayloads }
    \cup { [id |-> Some(id), threadId |-> None, labelIds |-> None, payload |-> None] }

\* The data of messages.get (metadata) for the original of a reply: every
\* requested header; a reply ("Re: Hi") without Cc and References; no
\* payload and no threadId.
OriginalResponses(id) ==
    { [id |-> Some(id), threadId |-> Some(<<116, 49>>),
       payload |-> Some([headers |-> FullHeaders(<<72, 105>>)])],
      [id |-> Some(id), threadId |-> Some(<<116, 49>>),
       payload |-> Some([headers |->
           Some(<<Header(NameFrom, <<97, 64, 120, 46, 99, 111, 109>>),
                  Header(NameTo, <<98, 64, 120, 46, 99, 111, 109>>),
                  Header(NameSubject, <<82, 101, 58, 32, 72, 105>>),
                  Header(NameMessageId, <<60, 49, 64, 120, 62>>)>>)])],
      [id |-> Some(id), threadId |-> None, payload |-> None] }

FetchResponses(tool, args) ==
    IF tool = "reply_to_email" THEN OriginalResponses(args.messageId)
    ELSE FullResponses(args.messageId)

\* The data of the call that ends a single-call tool, a reply or a forward.
CallResponses(tool) ==
    CASE tool \in {"send_email", "reply_to_email", "forward_email", "send_draft"} ->
           { [id |-> Some(<<120, 49>>), threadId |-> Some(<<116, 49>>)],
             [id |-> None, threadId |-> None] }
      [] tool = "create_draft" ->
           { [id |-> Some(<<100, 49>>), message |-> Some([id |-> Some(<<120, 49>>)])],
             [id |-> None, message |-> None] }
      [] tool = "list_labels" ->
           { [labels |-> None],
             [labels |-> Some(<<[id |-> Some(LabelInbox), name |-> Some(LabelInbox),
                                 type |-> None, messagesTotal |-> Some(0),
                                 messagesUnread |-> None]>>)] }
      [] tool = "create_label" ->
           { [id |-> Some(<<76, 49>>), name |-> Some(<<87, 111, 114, 107>>),
              type |-> None] }
      [] tool = "get_attachment" ->
           { [data |-> Some(<<81, 85, 74, 68>>), size |-> Some(3)],
             [data |-> None, size |-> None] }
      [] OTHER -> { [empty |-> TRUE] }

\* ------------------------------------------------------------------------
\* State
\* ------------------------------------------------------------------------

VARIABLES
    phase,     \* of a decoder or builder run: "input", then "done"
    input,     \* the argument of the function under check
    output,    \* its result, once computed
    pc,        \* where the invocation stands: "idle", "list", "details", "fetch",
               \* "call", "done"
    tool,      \* the tool invoked
    args,      \* its arguments
    calls,     \* the requests the invocation has issued, in order
    listing,   \* the data of the list call, once it answered
    detail,    \* the status of each detail fetch
    all,       \* the Promise.all of the detail fetches
    arrival,   \* the detail fetches that completed, in completion order
    received,  \* the data of the fetch of get_email, reply_to_email, forward_email
    response,  \* how the handler ended, once it did
    raised,    \* the first failure a service call of the invocation raised
    served,    \* the invocations begun
    failed     \* the invocations that ended in the catch block

pureVars == <<phase, input, output>>

serverVars ==
    <<pc, tool, args, calls, listing, detail, all, arrival, received, response, raised,
      served, failed>>

vars == <<pureVars, serverVars>>

\* The state of a server that handles no invocation.
Quiet ==
    /\ pc = "idle"
    /\ tool = "none"
    /\ args = None
    /\ calls = <<>>
    /\ listing = None
    /\ detail = <<>>
    /\ all = PromiseAll(0)
    /\ arrival = <<>>
    /\ received = None
    /\ response = None
    /\ raised = None
    /\ served = 0
    /\ failed = 0


\* ------------------------------------------------------------------------
\* The decoder applied to every bounded payload tree
\* ------------------------------------------------------------------------

InitBody ==
    /\ Quiet
    /\ phase = "input"
    /\ \E n \in 1..MaxNodes : \E d \in Shapes(n) : \E kindOf \in [1..n -> BodyKinds] :
           input = TreeAt(d, n, kindOf, 1)
    /\ output = None

ExtractBody ==
    /\ phase = "input"
    /\ phase' = "done"
    /\ output' = Some(extractBody(input))
    /\ UNCHANGED <<input, serverVars>>

SpecBody == InitBody /\ [][ExtractBody]_vars

InitAttachments ==
    /\ Quiet
    /\ phase = "input"
    /\ \E n \in 1..MaxNodes : \E d \in Shapes(n) :
           \E kindOf \in [1..n -> AttachmentKinds] : input = TreeAt(d, n, kindOf, 1)
    /\ output = None

ExtractAttachments ==
    /\ phase = "input"
    /\ phase' = "done"
    /\ output' = Some(extractAttachments(input))
    /\ UNCHANGED <<input, serverVars>>

SpecAttachments == InitAttachments /\ [][ExtractAttachments]_vars

\* ------------------------------------------------------------------------
\* Properties of the decoder
\* ------------------------------------------------------------------------

\* The parts of a tree in left-to-right, depth-first, pre-order.
RECURSIVE PreOrder(_)
RECURSIVE PreOrderAll(_, _)
PreOrderAll(parts, i) ==
    IF i > Len(parts) THEN <<>>
    ELSE PreOrder(parts[i]) \o PreOrderAll(parts, i + 1)

PreOrder(t) ==
    <<t>> \o (IF t.parts /= None THEN PreOrderAll(t.parts[1], 1) ELSE <<>>)

HasDataOfType(p, mimeType) ==
    /\ p.mimeType = Some(mimeType)
    /\ p.body /= None
    /\ p.body[1].data /= None
    /\ p.body[1].data[1] /= <<>>

\* The decoded content of the first part of the given type with non-empty
\* inline data, '' when there is none.
FirstWithData(t, mimeType) ==
    LET order == PreOrder(t)
        at == { i \in 1..Len(order) : HasDataOfType(order[i], mimeType) }
    IN IF at = {} THEN <<>> ELSE DecodeData(order[Min(at)])

\* The decoded content of the first part of the given type whose inline data
\* decodes to a non-empty string, '' when there is none.
FirstNonEmptyDecoded(t, mimeType) ==
    LET order == PreOrder(t)
        at == { i \in 1..Len(order) :
                  HasDataOfType(order[i], mimeType) /\ DecodeData(order[i]) /= <<>> }
    IN IF at = {} THEN <<>> ELSE DecodeData(order[Min(at)])

\* C1 as stated: text (html) is the decoded content of the first text/plain
\* (text/html) part with non-empty inline data in pre-order, and '' exactly
\* when no part has non-empty data of that type.
C1_FirstPartWithData ==
    phase = "done" =>
        /\ output[1].text = FirstWithData(input, TextPlain)
        /\ output[1].html = FirstWithData(input, TextHtml)
        /\ (output[1].text = <<>>) <=>
               (\A i \in 1..Len(PreOrder(input)) :
                    ~HasDataOfType(PreOrder(input)[i], TextPlain))

\* C1 amended: text (html) is the decoded content of the first text/plain
\* (text/html) part, in pre-order, whose inline data decodes to a non-empty
\* string; a later or deeper candidate never replaces it; the field is ''
\* exactly when no part of that type decodes to a non-empty string.
C1_FirstNonEmptyDecoded ==
    phase = "done" =>
        /\ output[1].text = FirstNonEmptyDecoded(input, TextPlain)
        /\ output[1].html = FirstNonEmptyDecoded(input, TextHtml)
        /\ (output[1].text = <<>>) <=>
               (\A i \in 1..Len(PreOrder(input)) :
                    HasDataOfType(PreOrder(input)[i], TextPlain)
                        => DecodeData(PreOrder(input)[i]) = <<>>)
        /\ (output[1].html = <<>>) <=>
               (\A i \in 1..Len(PreOrder(input)) :
                    HasDataOfType(PreOrder(input)[i], TextHtml)
                        => DecodeData(PreOrder(input)[i]) = <<>>)

\* A tree where the first text/plain candidate lies deeper than a later
\* one (a grandchild before the second child) and is the one returned.
C1_Witness ==
    /\ phase = "done"
    /\ input.parts /= None
    /\ Len(input.parts[1]) = 2
    /\ input.parts[1][1].parts /= None
    /\ ~HasDataOfType(input, TextPlain)
    /\ ~HasDataOfType(input.parts[1][1], TextPlain)
    /\ HasDataOfType(input.parts[1][1].parts[1][1], TextPlain)
    /\ HasDataOfType(input.parts[1][2], TextPlain)
    /\ DecodeData(input.parts[1][1].parts[1][1]) /= <<>>
    /\ DecodeData(input.parts[1][2]) /= DecodeData(input.parts[1][1].parts[1][1])
    /\ DecodeData(input.parts[1][2]) /= <<>>
    /\ output[1].text = DecodeData(input.parts[1][1].parts[1][1])

\* The record the claim asks for a qualifying part.
ExpectedAttachment(p) ==
    [filename |-> p.filename[1],
     mimeType |-> IF p.mimeType = None \/ p.mimeType = Some(<<>>)
                  THEN OctetStream ELSE p.mimeType[1],
     size |-> IF p.body[1].size = None THEN 0 ELSE p.body[1].size[1],
     attachmentId |-> p.body[1].attachmentId[1]]

Qualifies(p) ==
    /\ p.filename /= None /\ p.filename[1] /= <<>>
    /\ p.body /= None /\ p.body[1].attachmentId /= None

RECURSIVE SelectAttachments(_, _)
SelectAttachments(order, i) ==
    IF i > Len(order) THEN <<>>
    ELSE (IF Qualifies(order[i]) THEN <<ExpectedAttachment(order[i])>> ELSE <<>>)
         \o SelectAttachments(order, i + 1)

\* C2: extractAttachments returns one record per part with a non-empty
\* filename and a body carrying an attachmentId, and no other, in pre-order;
\* parts sharing an id are all kept; an absent size gives 0 and an absent
\* mimeType application/octet-stream.
C2_AttachmentsInPreOrder ==
    phase = "done" => output[1] = SelectAttachments(PreOrder(input), 1)

\* Two qualifying parts sharing an attachmentId, the first one deeper than
\* the second, one of them without size and mimeType, next to a part that
\* does not qualify.
C2_Witness ==
    /\ phase = "done"
    /\ Len(output[1]) = 2
    /\ output[1][1].attachmentId = output[1][2].attachmentId
    /\ output[1][1].mimeType = OctetStream
    /\ output[1][1].size = 0
    /\ output[1][2].size = 5
    /\ input.parts /= None
    /\ Len(input.parts[1]) = 2
    /\ input.parts[1][1].parts /= None
    /\ ~Qualifies(input.parts[1][1])
    /\ Qualifies(input.parts[1][1].parts[1][1])
    /\ Qualifies(input.parts[1][2])

\* ------------------------------------------------------------------------
\* The builder applied to bounded MimeOptions
\* ------------------------------------------------------------------------

\* An optional header value: undefined, '' or the given string.
OptionalValues(value) == {None, Some(<<>>), Some(value)}

\* Recipients: "a", and "a" followed by CRLF and "Bcc: e".
ToValues == { <<97>>, <<97>> \o CRLF \o HdrBcc \o <<101>> }

\* Subjects: "s" and ''.
SubjectValues == { <<115>>, <<>> }

\* The digits Date.now() and Math.random() contribute to the boundary: "17",
\* and "k3" or no digit at all.
NowValues == { <<49, 55>> }

RandomValues == { <<107, 51>>, <<>> }

InitBuilder ==
    /\ Quiet
    /\ phase = "input"
    /\ output = None
    /\ \E to \in ToValues, subject \in SubjectValues,
          cc \in OptionalValues(<<99>>), bcc \in OptionalValues(<<98>>),
          textBody \in OptionalValues(<<72, 105>>),
          htmlBody \in OptionalValues(<<60, 98, 62>>),
          inReplyTo \in OptionalValues(<<60, 105, 62>>),
          references \in OptionalValues(<<60, 114, 62>>),
          now \in NowValues, random \in RandomValues :
            input = [options |-> MimeOptions(to, subject, cc, bcc, textBody, htmlBody,
                                             inReplyTo, references),
                     now |-> now, random |-> random]

BuildMessage ==
    /\ phase = "input"
    /\ phase' = "built"
    /\ output' = Some(buildMimeMessage(input.options, Boundary(input.now, input.random)))
    /\ UNCHANGED <<input, serverVars>>

SpecBuilder == InitBuilder /\ [][BuildMessage]_vars

\* ------------------------------------------------------------------------
\* Round trip: a text body through the builder, its base64 body line through
\* the decoder
\* ------------------------------------------------------------------------

\* The longest text body.
MaxTextLen == 3

\* Code units of the text bodies: 'H', '?', U+00E9 (2 bytes in UTF-8),
\* U+20AC (3 bytes), and the surrogate pair of U+1F600 (4 bytes), whose
\* halves also occur unpaired.
TextUnits == {72, 63, 233, 8364, 55357, 56832}

Texts == UNION { [1..n -> TextUnits] : n \in 0..MaxTextLen }

\* The raw message decoded as its receiver does: URL-safe base64 to bytes,
\* UTF-8 to a string.
DecodeRaw(raw) == Utf8Decode(Base64Decode(raw))

\* s.split('\r\n'): the pieces between the places where CR LF stands.
SplitCRLF(s) ==
    LET breaks == { i \in 1..(Len(s) - 1) : s[i] = 13 /\ s[i + 1] = 10 }
        \* the k-th break, and the ends of the string as breaks 0 and n + 1
        break(k) == IF k = 0 THEN -1
                    ELSE IF k > Cardinality(breaks) THEN Len(s) + 1
                    ELSE CHOOSE i \in breaks :
                             Cardinality({ j \in breaks : j < i }) = k - 1
    IN [k \in 1..(Cardinality(breaks) + 1) |->
           SubSeq(s, break(k - 1) + 2, break(k) - 1)]

DecodedLines(raw) == SplitCRLF(DecodeRaw(raw))

InitRoundTrip ==
    /\ Quiet
    /\ phase = "input"
    /\ output = None
    /\ \E text \in Texts, now \in NowValues, random \in RandomValues :
         input = [options |-> MimeOptions(<<97>>, <<115>>, None, None, Some(text), None,
                                          None, None),
                  now |-> now, random |-> random]

\* The base64 body line of the built message, as the inline data of a
\* text/plain part, through extractBody.
DecodeBodyLine ==
    /\ phase = "built"
    /\ phase' = "done"
    /\ LET lines == DecodedLines(output[1])
       IN output' = Some(extractBody(WithParts(
              Part(Some(TextPlain), Some(<<>>), InlineBody(lines[Len(lines)])), None)))
    /\ UNCHANGED <<input, serverVars>>

NextRoundTrip == BuildMessage \/ DecodeBodyLine

SpecRoundTrip == InitRoundTrip /\ [][NextRoundTrip]_vars

\* ------------------------------------------------------------------------
\* The server: one tool invocation at a time, each a handler of index.ts
\* around a method of GmailClient
\* ------------------------------------------------------------------------

BatchTools == {"search_emails", "list_drafts"}

FetchTools == {"get_email", "reply_to_email", "forward_email"}

SingleTools ==
    {"send_email", "create_draft", "send_draft", "delete_draft", "trash_email",
     "archive_email", "mark_as_read", "mark_as_unread", "list_labels", "create_label",
     "apply_label", "remove_label", "get_attachment"}

\* The 18 tools registered with server.tool.
Tools == BatchTools \cup FetchTools \cup SingleTools

\* The arguments a caller passes to a tool.
ToolArgs(name) ==
    CASE name = "search_emails" ->
           { [query |-> <<105, 115, 58, 117, 110, 114, 101, 97, 100>>,
              maxResults |-> None, pageToken |-> None] }
      [] name = "list_drafts" -> { [maxResults |-> Some(5), pageToken |-> None] }
      [] name \in {"send_email", "create_draft"} ->
           { [to |-> <<97, 64, 120, 46, 99, 111, 109>>, subject |-> <<72, 105>>,
              body |-> c.body, cc |-> c.cc, bcc |-> None, isHtml |-> c.isHtml] :
               c \in { [body |-> <<72, 105>>, cc |-> None, isHtml |-> FALSE],
                        [body |-> <<72, 105>>, isHtml |-> TRUE,
                         cc |-> Some(<<99, 64, 120, 46, 99, 111, 109>>)],
                        [body |-> <<>>, cc |-> None, isHtml |-> TRUE] } }
      [] name = "reply_to_email" ->
           { [messageId |-> ItemId(1), body |-> <<72, 105>>, isHtml |-> isHtml,
              replyAll |-> replyAll] : isHtml \in BOOLEAN, replyAll \in BOOLEAN }
      [] name = "forward_email" ->
           { [messageId |-> ItemId(1), to |-> <<98, 64, 120, 46, 99, 111, 109>>] }
      [] name \in {"send_draft", "delete_draft"} -> { [draftId |-> <<100, 49>>] }
      [] name \in {"get_email", "trash_email", "archive_email", "mark_as_read",
                   "mark_as_unread"} -> { [messageId |-> ItemId(1)] }
      [] name = "list_labels" -> { [none |-> TRUE] }
      [] name = "create_label" ->
           { [name |-> <<87, 111, 114, 107>>, backgroundColor |-> b, textColor |-> c] :
               b \in { None, Some(<<35, 49, 49, 49>>) }, c \in { None, Some(<<>>) } }
      [] name \in {"apply_label", "remove_label"} ->
           { [messageId |-> ItemId(1), labelId |-> <<76, 49>>] }
      [] name = "get_attachment" ->
           { [messageId |-> ItemId(1), attachmentId |-> <<97, 49>>] }

Init ==
    /\ phase = "none"
    /\ input = None
    /\ output = None
    /\ Quiet

\* The handler ends: its try block returned or its catch block ran.
Complete(completion) ==
    /\ pc' = "done"
    /\ response' = Some(Handler(tool, args, completion))
    /\ failed' = IF completion.kind = "throw" THEN failed + 1 ELSE failed

\* A caller invokes a tool: the handler calls the client method, which runs
\* up to its first await.
Invoke ==
    /\ pc \in {"idle", "done"}
    /\ served < MaxInvocations
    /\ served' = served + 1
    /\ \E t \in Tools : \E a \in ToolArgs(t) :
       \E now \in NowValues, random \in RandomValues :
         /\ tool' = t
         /\ args' = a
         /\ pc' = IF t \in BatchTools THEN "list"
                  ELSE IF t \in FetchTools THEN "fetch" ELSE "call"
         /\ calls' = << CASE t = "search_emails" ->
                            ListMessagesRequest(a.query, a.maxResults, a.pageToken)
                       [] t = "list_drafts" -> ListDraftsRequest(a.maxResults, a.pageToken)
                       [] t \in FetchTools -> FetchRequest(t, a)
                       [] OTHER -> SingleRequest(t, a, Boundary(now, random)) >>
    /\ listing' = None
    /\ detail' = <<>>
    /\ all' = PromiseAll(0)
    /\ arrival' = <<>>
    /\ received' = None
    /\ response' = None
    /\ raised' = None
    /\ UNCHANGED <<failed, pureVars>>

\* The list call answers: with no item the method returns at once, else it
\* issues one detail fetch per item and awaits Promise.all of them.
ListOk ==
    /\ pc = "list"
    /\ \E data \in ListResponses(tool) :
       LET items == ListedItems(tool, data)
       IN /\ listing' = Some(data)
          /\ IF Len(items) = 0
             THEN /\ Complete(Return(IF tool = "search_emails"
                                     THEN SearchResult(<<>>, data.nextPageToken)
                                     ELSE DraftsResult(<<>>, data.nextPageToken)))
                  /\ UNCHANGED <<calls, detail, all>>
             ELSE /\ calls' = calls \o [i \in 1..Len(items) |->
                                            DetailRequest(tool, items[i])]
                  /\ detail' = [i \in 1..Len(items) |-> [status |-> "pending"]]
                  /\ all' = PromiseAll(Len(items))
                  /\ pc' = "details"
                  /\ UNCHANGED <<response, failed>>
    /\ UNCHANGED <<tool, args, arrival, received, raised, served, pureVars>>

ListFail ==
    /\ pc = "list"
    /\ \E error \in Failures :
         /\ raised' = Some(error)
         /\ Complete(Throw(error))
    /\ UNCHANGED <<tool, args, calls, listing, detail, all, arrival, received, served,
                   pureVars>>

\* The method resumes from `await Promise.all` in the step that settles
\* the promise, and the handler ends with it.
Resume ==
    IF pc = "details" /\ all'.state /= "pending"
    THEN Complete(AwaitAll(tool, all', listing[1].nextPageToken))
    ELSE UNCHANGED <<pc, response, failed>>

\* Detail fetch i answers.
DetailOk ==
    /\ pc \in {"details", "done"}
    /\ \E i \in DOMAIN detail :
         /\ detail[i].status = "pending"
         /\ detail' = [detail EXCEPT ![i] = [status |-> "ok"]]
         /\ arrival' = Append(arrival, i)
         /\ all' = AllOnFulfil(all, i, Summary(tool, calls[1 + i]))
         /\ Resume
    /\ UNCHANGED <<tool, args, calls, listing, received, raised, served, pureVars>>

\* Detail fetch i fails.
DetailFail ==
    /\ pc \in {"details", "done"}
    /\ \E i \in DOMAIN detail : \E error \in DetailFailures(calls[1 + i]) :
         /\ detail[i].status = "pending"
         /\ detail' = [detail EXCEPT ![i] = [status |-> "failed", error |-> error]]
         /\ arrival' = Append(arrival, i)
         /\ all' = AllOnReject(all, i, error)
         /\ raised' = IF raised = None THEN Some(error) ELSE raised
         /\ Resume
    /\ UNCHANGED <<tool, args, calls, listing, received, served, pureVars>>

\* The fetch of get_email, reply_to_email or forward_email answers:
\* get_email returns; the other two build their message and send it.
FetchOk ==
    /\ pc = "fetch"
    /\ \E data \in FetchResponses(tool, args), msg \in TypeErrorMessages,
          now \in NowValues, random \in RandomValues :
         LET email == getEmail(data, msg)
             boundary == Boundary(now, random)
         IN /\ received' = Some(data)
            /\ CASE tool = "get_email" ->
                   /\ Complete(email)
                   /\ UNCHANGED calls
              [] tool = "forward_email" /\ email.kind = "throw" ->
                   /\ Complete(email)
                   /\ UNCHANGED calls
              [] tool = "forward_email" /\ email.kind = "return" ->
                   /\ calls' = Append(calls, SendMessageRequest(
                          buildMimeMessage(ForwardOptions(email.value, args), boundary),
                          None))
                   /\ pc' = "call"
                   /\ UNCHANGED <<response, failed>>
              [] tool = "reply_to_email" ->
                   /\ calls' = Append(calls, SendMessageRequest(
                          buildMimeMessage(ReplyOptions(data, args), boundary),
                          ReplyThread(data)))
                   /\ pc' = "call"
                   /\ UNCHANGED <<response, failed>>
    /\ UNCHANGED <<tool, args, listing, detail, all, arrival, raised, served, pureVars>>

FetchFail ==
    /\ pc = "fetch"
    /\ \E error \in Failures :
         /\ raised' = Some(error)
         /\ Complete(Throw(error))
    /\ UNCHANGED <<tool, args, calls, listing, detail, all, arrival, received, served,
                   pureVars>>

\* The last call of the method fails and is issued once more.
CallFailRetries ==
    /\ pc = "call"
    /\ \E error \in Failures : raised' = Some(error)
    /\ calls' = Append(calls, calls[Len(calls)])
    /\ UNCHANGED <<pc, response, failed, tool, args, listing, detail, all, arrival,
                   received, served, pureVars>>

\* The last call of the method answers.
CallOk ==
    /\ pc = "call"
    /\ \E data \in CallResponses(tool) : Complete(Return(ClientResult(tool, data)))
    /\ UNCHANGED <<tool, args, calls, listing, detail, all, arrival, received, raised,
                   served, pureVars>>

CallFail ==
    /\ pc = "call"
    /\ \E error \in Failures :
         /\ raised' = Some(error)
         /\ Complete(Throw(error))
    /\ UNCHANGED <<tool, args, calls, listing, detail, all, arrival, received, served,
                   pureVars>>

Next ==
    \/ Invoke
    \/ ListOk
    \/ ListFail
    \/ DetailOk
    \/ DetailFail
    \/ FetchOk
    \/ FetchFail
    \/ CallOk
    \/ CallFail

Spec == Init /\ [][Next]_vars

\* ------------------------------------------------------------------------
\* Properties of the builder
\* ------------------------------------------------------------------------

MultipartLayout(boundary, text, html) ==
    << CtMultipartOpen \o boundary \o <<34>>, <<>>,
       <<45, 45>> \o boundary, CtTextPlain, CteBase64, <<>>, Base64OfText(text),
       <<45, 45>> \o boundary, CtTextHtml, CteBase64, <<>>, Base64OfText(html),
       <<45, 45>> \o boundary \o <<45, 45>> >>

SinglePartLayout(contentType, body) ==
    << contentType, CteBase64, <<>>, Base64OfText(body) >>

\* The lines are a header block ending with MIME-Version: 1.0, then the layout.
EndsWithLayout(lines, layout) ==
    /\ Len(lines) > Len(layout)
    /\ SubSeq(lines, Len(lines) - Len(layout) + 1, Len(lines)) = layout
    /\ lines[Len(lines) - Len(layout)] = HdrMimeVersion

\* C8 as stated: multipart/alternative (plain part, HTML part, closing
\* boundary) when textBody and htmlBody are both supplied; a single
\* text/html part when only htmlBody is supplied, whatever string it is, ''
\* included; a single text/plain part otherwise, with textBody or ''.
C8_ThreeLayouts ==
    phase = "built" =>
        LET lines == DecodedLines(output[1])
            o == input.options
            boundary == Boundary(input.now, input.random)
        IN IF o.textBody /= None /\ o.htmlBody /= None
           THEN EndsWithLayout(lines, MultipartLayout(boundary, o.textBody[1], o.htmlBody[1]))
           ELSE IF o.htmlBody /= None
           THEN EndsWithLayout(lines, SinglePartLayout(CtTextHtml, o.htmlBody[1]))
           ELSE EndsWithLayout(lines, SinglePartLayout(CtTextPlain,
                                   IF o.textBody = None THEN <<>> ELSE o.textBody[1]))

\* The header section: the lines before the first empty line.
RECURSIVE HeaderSectionFrom(_, _)
HeaderSectionFrom(lines, i) ==
    IF i > Len(lines) \/ lines[i] = <<>> THEN <<>>
    ELSE <<lines[i]>> \o HeaderSectionFrom(lines, i + 1)

HeaderSection(lines) == HeaderSectionFrom(lines, 1)

\* The name of a header line: the characters before its first ':'.
HeaderName(line) ==
    LET colons == { i \in 1..Len(line) : line[i] = 58 }
    IN IF colons = {} THEN line ELSE SubSeq(line, 1, Min(colons) - 1)

\* 'Content-Type'
NameContentType == HeaderName(CtTextPlain)

OrderedNames ==
    { HeaderName(HdrTo), HeaderName(HdrCc), HeaderName(HdrBcc), HeaderName(HdrSubject),
      HeaderName(HdrInReplyTo), HeaderName(HdrReferences), HeaderName(HdrMimeVersion),
      NameContentType }

\* The names of the header lines of the section, other headers left out.
RECURSIVE NamesFrom(_, _)
NamesFrom(section, i) ==
    IF i > Len(section) THEN <<>>
    ELSE (IF HeaderName(section[i]) \in OrderedNames
          THEN <<HeaderName(section[i])>> ELSE <<>>)
         \o NamesFrom(section, i + 1)

Present(opt) == opt /= None /\ opt[1] /= <<>>

ExpectedNames(o) ==
    <<HeaderName(HdrTo)>>
    \o (IF Present(o.cc) THEN <<HeaderName(HdrCc)>> ELSE <<>>)
    \o (IF Present(o.bcc) THEN <<HeaderName(HdrBcc)>> ELSE <<>>)
    \o <<HeaderName(HdrSubject)>>
    \o (IF Present(o.inReplyTo) THEN <<HeaderName(HdrInReplyTo)>> ELSE <<>>)
    \o (IF Present(o.references) THEN <<HeaderName(HdrReferences)>> ELSE <<>>)
    \o <<HeaderName(HdrMimeVersion), NameContentType>>

\* C9: the header lines of the decoded message are, in this order, To, Cc,
\* Bcc, Subject, In-Reply-To, References, MIME-Version: 1.0 and Content-Type;
\* To, Subject and MIME-Version occur exactly once, each of Cc, Bcc,
\* In-Reply-To and References exactly once when its option is present (a
\* non-empty value) and not at all otherwise.
C9_HeaderOrder ==
    phase = "built" =>
        NamesFrom(HeaderSection(DecodedLines(output[1])), 1) = ExpectedNames(input.options)

\* No code unit of the text is half of a surrogate pair without its other
\* half.
WellFormed(text) ==
    \A i \in 1..Len(text) :
        /\ IsHighSurrogate(text[i]) => i < Len(text) /\ IsLowSurrogate(text[i + 1])
        /\ IsLowSurrogate(text[i]) => i > 1 /\ IsHighSurrogate(text[i - 1])

\* C10 as stated: for every text body, the emitted base64 body line decoded
\* by extractBody as the data of a text/plain part is the original text.
C10_RoundTripEveryText ==
    phase = "done" => output[1].text = input.options.textBody[1]

\* C10 amended: the same for every text body without an unpaired surrogate
\* code unit, texts of multi-byte characters included.
C10_RoundTripWellFormed ==
    phase = "done" /\ WellFormed(input.options.textBody[1])
        => output[1].text = input.options.textBody[1]

\* A text came back unchanged that holds a 2-byte and a 3-byte character, or
\* a 4-byte character, or whose base64 line holds a '/', which the URL-safe
\* alphabet replaces.
C10_Witness ==
    /\ phase = "done"
    /\ input.options.textBody[1] \in { <<233, 8364>>, <<55357, 56832>>, <<63, 63, 63>> }
    /\ output[1].text = input.options.textBody[1]

\* ------------------------------------------------------------------------
\* Properties of the server
\* ------------------------------------------------------------------------

\* { content: [{ type: 'text', text }] } with the text of a serialised value.
IsSuccessEnvelope(e) ==
    /\ DOMAIN e = {"content"}
    /\ Len(e.content) = 1
    /\ e.content[1].type = "text"
    /\ e.content[1].text[1] = "JSON"

\* { content: [{ type: 'text', text: "Error: <message>" }], isError: true }
IsErrorEnvelope(e, message) ==
    /\ DOMAIN e = {"content", "isError"}
    /\ e.isError = TRUE
    /\ Len(e.content) = 1
    /\ e.content[1].type = "text"
    /\ e.content[1].text = ErrorPrefix \o message

\* The handler returned, and what it returned.
Returned == pc = "done" /\ response /= None /\ response[1].kind = "return"

Succeeded == Returned /\ IsSuccessEnvelope(response[1].value)

\* The value the success envelope serialises.
ResultValue == response[1].value.content[1].text[2]

\* The summaries of a batch result.
Summaries == IF tool = "search_emails" THEN ResultValue.emails ELSE ResultValue.drafts

\* The summary of the detail data the service holds for a listed item.
SummaryOfItem(item) ==
    IF tool = "search_emails" THEN MessageSummary(MessageData(item.id))
    ELSE DraftSummary(DraftData(item.id))

\* C3: a batch that succeeded returns one summary per listed item, the i-th
\* being the summary of the detail data of the i-th listed item, in whatever
\* order the detail fetches completed.
C3_ListOrder ==
    (tool \in BatchTools /\ Succeeded) =>
        LET items == ListedItems(tool, listing[1])
        IN /\ Len(Summaries) = Len(items)
           /\ \A i \in 1..Len(items) : Summaries[i] = SummaryOfItem(items[i])

\* Three detail fetches of a search completed, the last listed first, and
\* the search returned.
C3_Witness ==
    /\ tool = "search_emails"
    /\ Succeeded
    /\ Len(arrival) = 3
    /\ arrival[1] = 3
    /\ arrival[3] = 2
    /\ Summaries[1] /= Summaries[3]

\* The detail fetch that failed first.
FirstFailed ==
    arrival[Min({ k \in 1..Len(arrival) : detail[arrival[k]].status = "failed" })]

\* C4: once a detail fetch of a batch has failed, the invocation has ended
\* with the error envelope of the first detail fetch that failed.
C4_FirstFailureFailsAll ==
    (tool \in BatchTools /\ \E i \in DOMAIN detail : detail[i].status = "failed") =>
        /\ Returned
        /\ IsErrorEnvelope(response[1].value, detail[FirstFailed].error.message)

\* A detail fetch answered, then a second one failed, then a third one
\* failed with another message.
C4_Witness ==
    /\ tool \in BatchTools
    /\ Len(arrival) = 3
    /\ detail[arrival[1]].status = "ok"
    /\ detail[arrival[2]].status = "failed"
    /\ detail[arrival[3]].status = "failed"
    /\ detail[arrival[2]].error /= detail[arrival[3]].error
    /\ Returned

\* C5 as stated: a batch has ended only when none of its detail fetches is
\* outstanding.
C5_RespondsAfterEveryFetch ==
    (tool \in BatchTools /\ pc = "done") =>
        \A i \in DOMAIN detail : detail[i].status /= "pending"

\* C5: a batch has ended with a success payload only when every detail fetch
\* has answered, and with the error envelope only when the list call or a
\* detail fetch has failed.
C5_SuccessAfterEveryFetch ==
    (tool \in BatchTools /\ pc = "done") =>
        /\ Returned
        /\ IF IsSuccessEnvelope(response[1].value)
           THEN \A i \in DOMAIN detail : detail[i].status = "ok"
           ELSE \/ listing = None
                \/ \E i \in DOMAIN detail : detail[i].status = "failed"

\* A batch of three detail fetches returned its summaries.
C5_Witness ==
    /\ tool \in BatchTools
    /\ Succeeded
    /\ Len(detail) = 3
    /\ \A i \in DOMAIN detail : detail[i].status = "ok"

\* C6: every invocation that has ended returned a success payload or the
\* error envelope, never both and never a raised error; it returned the
\* error envelope with the message of the failure if a service call failed.
C6_AlwaysAnEnvelope ==
    pc = "done" =>
        /\ Returned
        /\ IF raised = None
           THEN \/ IsSuccessEnvelope(response[1].value)
                \/ \E m \in TypeErrorMessages : IsErrorEnvelope(response[1].value, m)
           ELSE IsErrorEnvelope(response[1].value, raised[1].message)

\* The first invocation ended in the error envelope after a service call
\* failed; the server took a second invocation, which returned a success
\* payload.
C6_Witness ==
    /\ served = 2
    /\ failed = 1
    /\ Succeeded

\* Every part of the tree, the root included, has no body or a body with
\* neither data nor attachmentId.
LacksBodies(payload) ==
    \A k \in 1..Len(PreOrder(payload)) :
        LET part == PreOrder(payload)[k]
        IN part.body = None
           \/ (part.body[1].data = None /\ part.body[1].attachmentId = None)

\* C7 as stated: get_email whose fetch answered returns a success payload,
\* with empty body, htmlBody and attachments when the response has no
\* payload or a payload whose parts lack bodies.
C7_DecodingNeverRaises ==
    (tool = "get_email" /\ pc = "done" /\ received /= None) =>
        /\ Succeeded
        /\ (received[1].payload = None \/ LacksBodies(received[1].payload[1])) =>
              /\ ResultValue.body = <<>>
              /\ ResultValue.htmlBody = <<>>
              /\ ResultValue.attachments = <<>>

\* ------------------------------------------------------------------------
\* Replies: replyToEmail after its metadata fetch, and the reply stored by
\* the service as the original of the next reply
\* ------------------------------------------------------------------------

\* The longest chain of replies.
MaxChain == 3

\* The header of the given name and value, or none when the value is absent.
HeaderIf(name, value) == IF value = None THEN <<>> ELSE <<Header(name, value[1])>>

\* 'Message-Id', the spelling some senders use.
NameMessageIdMixed == <<77, 101, 115, 115, 97, 103, 101, 45, 73, 100>>

\* The metadata of the first original of a chain: each of the six requested
\* headers present or not; To "a@x.com"; Cc '', "a@x.com" or "c@x.com";
\* Subject "Hi", "Re: Hi" or "re: Hi"; Message-ID "<1@x>" under either
\* spelling of its name; References "<0@x>"; with or without threadId.
FirstOriginals ==
    { [id |-> Some(ItemId(1)), threadId |-> threadId,
       payload |-> Some([headers |-> Some(
           HeaderIf(NameFrom, from) \o HeaderIf(NameTo, to) \o HeaderIf(NameCc, cc)
           \o HeaderIf(NameSubject, subject) \o HeaderIf(mid[1], mid[2])
           \o HeaderIf(NameReferences, references))])] :
        threadId \in {None, Some(<<116, 49>>)},
        from \in {None, Some(<<97, 64, 120, 46, 99, 111, 109>>)},
        to \in {None, Some(<<97, 64, 120, 46, 99, 111, 109>>)},
        cc \in {None, Some(<<>>), Some(<<97, 64, 120, 46, 99, 111, 109>>),
                Some(<<99, 64, 120, 46, 99, 111, 109>>)},
        subject \in {None, Some(<<72, 105>>), Some(<<82, 101, 58, 32, 72, 105>>),
                     Some(<<114, 101, 58, 32, 72, 105>>)},
        mid \in {<<NameMessageId, None>>, <<NameMessageId, Some(<<60, 49, 64, 120, 62>>)>>,
                 <<NameMessageIdMixed, Some(<<60, 49, 64, 120, 62>>)>>},
        references \in {None, Some(<<60, 48, 64, 120, 62>>)} }
    \cup { [id |-> Some(ItemId(1)), threadId |-> None, payload |-> None] }

\* The arguments of reply_to_email: plain or HTML body, replyAll or not.
ReplyArgs ==
    { [messageId |-> ItemId(1), body |-> <<72, 105>>, isHtml |-> h, replyAll |-> r] :
        h \in BOOLEAN, r \in BOOLEAN }

\* The lines of the section whose header name is `name`.
LinesNamed(section, name) == SelectSeq(section, LAMBDA l : HeaderName(l) = name)

\* The value of a header line: what follows its name, ':' and one space.
ValueOf(line) == SubSeq(line, Len(HeaderName(line)) + 3, Len(line))

\* The Message-ID the service gives the k-th message of a chain: "<k@x>".
ChainId(k) == <<60, 48 + k, 64, 120, 62>>

\* The address of the mailbox owner, "me@x.com".
OwnAddress == <<109, 101, 64, 120, 46, 99, 111, 109>>

\* The headers of the sent message the service returns for a metadata
\* request of From, To, Cc, Subject, Message-ID and References.
StoredLines(section) ==
    SelectSeq(section, LAMBDA l :
        HeaderName(l) \in {NameTo, NameCc, NameSubject, NameReferences})

\* messages.get (metadata) of the k-th message of a chain, sent by `request`:
\* the service adds From and Message-ID, and a thread when the request named
\* none.
StoredReply(request, k) ==
    LET stored == StoredLines(HeaderSection(DecodedLines(request.raw)))
    IN [id |-> Some(ItemId(k)),
        threadId |-> IF request.threadId /= None THEN request.threadId
                     ELSE Some(<<116, 50>>),
        payload |-> Some([headers |-> Some(
            <<Header(NameFrom, OwnAddress)>>
            \o [i \in 1..Len(stored) |-> Header(HeaderName(stored[i]), ValueOf(stored[i]))]
            \o <<Header(NameMessageId, ChainId(k))>>)])]

InitReply ==
    /\ Quiet
    /\ phase = "input"
    /\ output = None
    /\ \E data \in FirstOriginals, a \in ReplyArgs, now \in NowValues :
         input = [data |-> data, args |-> a, now |-> now, depth |-> 1,
                  earlier |-> <<>>]

\* replyToEmail from the answer of its metadata fetch to its send request
\* (lines 200-235).
ComposeReply ==
    /\ phase = "input"
    /\ phase' = "built"
    /\ output' = Some(SendMessageRequest(
                     buildMimeMessage(ReplyOptions(input.data, input.args),
                                      Boundary(input.now, <<107, 51>>)),
                     ReplyThread(input.data)))
    /\ UNCHANGED <<input, serverVars>>

\* The reply is stored, and reply_to_email is invoked on it; `earlier` lists
\* the References and the Message-ID of the messages replied to so far, ''
\* for what a message lacks.
ReplyAgain ==
    /\ phase = "built"
    /\ input.depth < MaxChain
    /\ phase' = "input"
    /\ output' = None
    /\ \E a \in ReplyArgs :
         input' = [input EXCEPT !.data = StoredReply(output[1], input.depth + 1),
                                !.args = [a EXCEPT !.messageId = ItemId(input.depth + 1)],
                                !.depth = input.depth + 1,
                                !.earlier =
                                    (IF input.depth = 1
                                     THEN <<HeaderOrEmpty(HeadersOf(input.data.payload),
                                                          NameReferences)>>
                                     ELSE input.earlier)
                                    \o <<HeaderOrEmpty(HeadersOf(input.data.payload),
                                                       NameMessageId)>>]
    /\ UNCHANGED serverVars

NextReply == ComposeReply \/ ReplyAgain

SpecReply == InitReply /\ [][NextReply]_vars

\* The header section of the reply that was composed.
ReplySection == HeaderSection(DecodedLines(output[1].raw))

\* The value of the header of the original that goes by `name` in any
\* spelling, '' when its metadata has none.
Original(name) ==
    LET list == IF input.data.payload = None THEN <<>>
                ELSE input.data.payload[1].headers[1]
        named == SelectSeq(list, LAMBDA h : ToLowerCase(h.name[1]) = ToLowerCase(name))
    IN IF named = <<>> THEN <<>> ELSE named[1].value[1]

\* 'In-Reply-To'
NameInReplyTo == HeaderName(HdrInReplyTo)

\* C11 as stated: every reply carries exactly one In-Reply-To header, whose
\* value is the Message-ID of the original, whatever headers the metadata
\* of the original contains.
C11_AlwaysInReplyTo ==
    phase = "built" =>
        LinesNamed(ReplySection, NameInReplyTo) = <<HdrInReplyTo \o Original(NameMessageId)>>

\* C11: a reply to an original whose metadata has a non-empty Message-ID
\* carries exactly one In-Reply-To header, whose value is that Message-ID,
\* whatever other headers the metadata contains; a reply to an original
\* without Message-ID carries no In-Reply-To header.
C11_InReplyToWhenMessageId ==
    phase = "built" =>
        LinesNamed(ReplySection, NameInReplyTo) =
            IF Original(NameMessageId) /= <<>>
            THEN <<HdrInReplyTo \o Original(NameMessageId)>>
            ELSE <<>>

\* A reply to an original whose metadata holds only 'Message-Id' carries
\* In-Reply-To: <1@x>.
C11_Witness ==
    /\ phase = "built"
    /\ input.depth = 1
    /\ input.data.payload /= None
    /\ Len(input.data.payload[1].headers[1]) = 1
    /\ input.data.payload[1].headers[1][1].name = Some(NameMessageIdMixed)
    /\ LinesNamed(ReplySection, NameInReplyTo) = <<HdrInReplyTo \o <<60, 49, 64, 120, 62>> >>

\* The value of the References header of the reply, '' when it has none.
ReplyReferencesValue ==
    LET lines == LinesNamed(ReplySection, NameReferences)
    IN IF lines = <<>> THEN <<>> ELSE ValueOf(lines[1])

\* The References of the first original and the Message-IDs of the messages
\* replied to so far, the current original included.
EarlierIds ==
    (IF input.depth = 1 THEN <<Original(NameReferences)>> ELSE input.earlier)
    \o <<Original(NameMessageId)>>

\* C12 as stated: the References value of a reply is the References of the
\* original, one space and its Message-ID when the original has References,
\* and the Message-ID alone when it has none; along a chain of replies it
\* is the list of the Message-IDs of all earlier messages in order, each
\* once, separated by single spaces, with no leading or trailing space.
C12_ReferencesChain ==
    phase = "built" =>
        /\ Len(LinesNamed(ReplySection, NameReferences)) <= 1
        /\ ReplyReferencesValue =
               IF Original(NameReferences) /= <<>>
               THEN Original(NameReferences) \o <<32>> \o Original(NameMessageId)
               ELSE Original(NameMessageId)
        /\ ReplyReferencesValue = JoinNonEmpty(EarlierIds, <<32>>)

\* C13: the reply is submitted by messages.send with the threadId of the
\* original that the metadata fetch returned (none when the original has
\* none), and its only To header holds the From value of the original.
C13_SameThreadToSender ==
    phase = "built" =>
        /\ output[1].op = "messages.send"
        /\ output[1].threadId = input.data.threadId
        /\ LinesNamed(ReplySection, NameTo) = <<HdrTo \o Original(NameFrom)>>

\* A reply to an original of thread "t1" from "a@x.com" was submitted to
\* thread "t1" with To: a@x.com.
C13_Witness ==
    /\ phase = "built"
    /\ input.data.threadId = Some(<<116, 49>>)
    /\ Original(NameFrom) = <<97, 64, 120, 46, 99, 111, 109>>
    /\ output[1].threadId = Some(<<116, 49>>)
    /\ LinesNamed(ReplySection, NameTo) = <<HdrTo \o <<97, 64, 120, 46, 99, 111, 109>> >>

\* The Cc value a reply to all is to carry: the To and the Cc of the
\* original, each only if non-empty, with ", " between them.
ExpectedCc ==
    IF Original(NameTo) /= <<>> /\ Original(NameCc) /= <<>>
    THEN Original(NameTo) \o <<44, 32>> \o Original(NameCc)
    ELSE IF Original(NameTo) /= <<>> THEN Original(NameTo) ELSE Original(NameCc)

\* C14: with replyAll the reply has one Cc header whose value is the
\* non-empty ones among the original To and Cc, in that order, joined by
\* ", " with no leading or trailing separator and with no address removed
\* as a duplicate; without replyAll, or when both are empty, it has no Cc
\* header.
C14_ReplyAllCc ==
    phase = "built" =>
        LinesNamed(ReplySection, NameCc) =
            IF input.args.replyAll /\ ExpectedCc /= <<>>
            THEN <<HdrCc \o ExpectedCc>>
            ELSE <<>>

\* A reply to all to an original with To "a@x.com" and Cc '' carries
\* Cc: a@x.com.
C14_Witness ==
    /\ phase = "built"
    /\ input.args.replyAll
    /\ input.depth = 1
    /\ input.data.payload /= None
    /\ \E i \in DOMAIN input.data.payload[1].headers[1] :
           input.data.payload[1].headers[1][i] = Header(NameCc, <<>>)
    /\ Original(NameTo) = <<97, 64, 120, 46, 99, 111, 109>>
    /\ LinesNamed(ReplySection, NameCc) = <<HdrCc \o <<97, 64, 120, 46, 99, 111, 109>> >>

\* ------------------------------------------------------------------------
\* Subjects: the subject of a reply and of a forward, applied in turn to
\* the subject they produced
\* ------------------------------------------------------------------------

\* The longest subject made of SubjectUnits.
MaxSubjectLen == 4

\* 'R', 'e', 'r', ':', ' ' and 'H'.
SubjectUnits == {82, 101, 114, 58, 32, 72}

\* Every subject of up to MaxSubjectLen of these units, and "Fwd:",
\* "Fwd: H", "fwd: H", "FWD: H", "Fwd:H", "Re: Fwd: H" and "Fwd: Re: H".
Subjects ==
    UNION { [1..n -> SubjectUnits] : n \in 0..MaxSubjectLen }
    \cup { <<70, 119, 100, 58>>, <<70, 119, 100, 58, 32, 72>>,
           <<102, 119, 100, 58, 32, 72>>, <<70, 87, 68, 58, 32, 72>>,
           <<70, 119, 100, 58, 72>>, <<82, 101, 58, 32, 70, 119, 100, 58, 32, 72>>,
           <<70, 119, 100, 58, 32, 82, 101, 58, 32, 72>> }

InitSubject ==
    /\ Quiet
    /\ phase = "input"
    /\ output = None
    /\ \E subject \in Subjects :
         input = [subject |-> subject, before |-> subject, steps |-> <<>>]

\* The subject at hand: the one drawn, then the one last produced.
CurrentSubject == IF output = None THEN input.subject ELSE output[1]

\* replyToEmail on a message with the subject at hand (line 208).
ReplySubjectStep ==
    /\ Len(input.steps) < MaxChain
    /\ phase' = "replied"
    /\ input' = [input EXCEPT !.before = CurrentSubject,
                              !.steps = Append(input.steps, "reply")]
    /\ output' = Some(ReplySubject(CurrentSubject))
    /\ UNCHANGED serverVars

\* forwardEmail on a message with the subject at hand (lines 245-247).
ForwardSubjectStep ==
    /\ Len(input.steps) < MaxChain
    /\ phase' = "forwarded"
    /\ input' = [input EXCEPT !.before = CurrentSubject,
                              !.steps = Append(input.steps, "forward")]
    /\ output' = Some(ForwardSubject(CurrentSubject))
    /\ UNCHANGED serverVars

NextSubject == ReplySubjectStep \/ ForwardSubjectStep

SpecSubject == InitSubject /\ [][NextSubject]_vars

\* The subject begins with the characters 'R', 'e', ':' in exactly this
\* case.
BeginsRe(s) == Len(s) >= 3 /\ s[1] = 82 /\ s[2] = 101 /\ s[3] = 58

\* The subject begins with 'F', 'w', 'd', ':' in exactly this case.
BeginsFwd(s) == Len(s) >= 4 /\ s[1] = 70 /\ s[2] = 119 /\ s[3] = 100 /\ s[4] = 58

\* The last two steps were both `step`.
Twice(step) ==
    /\ Len(input.steps) >= 2
    /\ input.steps[Len(input.steps)] = step
    /\ input.steps[Len(input.steps) - 1] = step

\* C15: the subject of a reply is the original subject when that begins
\* with "Re:" in exactly this case, and "Re: " followed by it otherwise; a
\* reply to a reply has the subject of that reply; the same holds for
\* "Fwd:" and forwards.
C15_PrefixIdempotent ==
    /\ phase = "replied" =>
         /\ output[1] = IF BeginsRe(input.before) THEN input.before
                        ELSE <<82, 101, 58, 32>> \o input.before
         /\ Twice("reply") => output[1] = input.before
    /\ phase = "forwarded" =>
         /\ output[1] = IF BeginsFwd(input.before) THEN input.before
                        ELSE <<70, 119, 100, 58, 32>> \o input.before
         /\ Twice("forward") => output[1] = input.before

\* Two replies in a row to the subject "re:H" gave "Re: re:H".
C15_Witness ==
    /\ phase = "replied"
    /\ input.subject = <<114, 101, 58, 72>>
    /\ input.steps = <<"reply", "reply">>
    /\ output = Some(<<82, 101, 58, 32, 114, 101, 58, 72>>)

\* ------------------------------------------------------------------------
\* Forwards: forwardEmail after the fetch of getEmail
\* ------------------------------------------------------------------------

\* The text/plain part of an original: none; "Hi"; one with empty data; one
\* whose data is no base64 ("!!"). `text` is what the part holds.
TextSamples ==
    { [part |-> <<>>, text |-> <<>>],
      [part |-> <<WithParts(Part(Some(TextPlain), Some(<<>>), InlineBody(<<83, 71, 107>>)),
                            None)>>,
       text |-> <<72, 105>>],
      [part |-> <<WithParts(Part(Some(TextPlain), Some(<<>>), InlineBody(<<>>)), None)>>,
       text |-> <<>>],
      [part |-> <<WithParts(Part(Some(TextPlain), Some(<<>>), InlineBody(<<33, 33>>)),
                            None)>>,
       text |-> <<>>] }

\* The text/html part of an original: none; "<b>Hi</b>", which reads "Hi";
\* "<p>A&amp;B</p><br>C", which reads "A&B", an empty line and "C".
HtmlSamples ==
    { [part |-> <<>>, reduced |-> <<>>],
      [part |-> <<WithParts(Part(Some(TextHtml), Some(<<>>),
                                 InlineBody(<<80, 71, 73, 45, 83, 71, 107, 56, 76, 50,
                                              73, 45>>)), None)>>,
       reduced |-> <<72, 105>>],
      [part |-> <<WithParts(Part(Some(TextHtml), Some(<<>>),
                                 InlineBody(<<80, 72, 65, 45, 81, 83, 90, 104, 98, 88,
                                              65, 55, 81, 106, 119, 118, 99, 68, 52, 56,
                                              89, 110, 73, 45, 81, 119>>)), None)>>,
       reduced |-> <<65, 38, 66, 10, 10, 67>>] }

\* The recipients of a forward: "b@x.com", and "b@x.com" followed by CR LF
\* and "In-Reply-To: <9@x>".
ForwardToValues ==
    { <<98, 64, 120, 46, 99, 111, 109>>,
      <<98, 64, 120, 46, 99, 111, 109>> \o CRLF \o HdrInReplyTo \o <<60, 57, 64, 120, 62>> }

\* messages.get (full) of the original of a forward: a multipart of the
\* sampled parts in thread "t1", with Message-ID and References and with
\* any of From, To, Subject ("Hi" or "Fwd: Hi") and Date; or no payload.
InitForward ==
    /\ Quiet
    /\ phase = "input"
    /\ output = None
    /\ \E to \in ForwardToValues, now \in NowValues :
         \/ \E t \in TextSamples, h \in HtmlSamples,
               from \in {None, Some(<<97, 64, 120, 46, 99, 111, 109>>)},
               originalTo \in {None, Some(<<99, 64, 120, 46, 99, 111, 109>>)},
               subject \in {None, Some(<<72, 105>>), Some(<<70, 119, 100, 58, 32, 72, 105>>)},
               date \in {None, Some(<<77, 111, 110>>)} :
              input = [data |-> [id |-> Some(ItemId(1)), threadId |-> Some(<<116, 49>>),
                                 labelIds |-> Some(<<LabelInbox>>),
                                 payload |-> Some(RootPayload(
                                     WithParts(Multipart, Some(t.part \o h.part)),
                                     Some(HeaderIf(NameFrom, from)
                                          \o HeaderIf(NameTo, originalTo)
                                          \o HeaderIf(NameSubject, subject)
                                          \o HeaderIf(NameDate, date)
                                          \o <<Header(NameMessageId, ChainId(1)),
                                               Header(NameReferences, ChainId(0))>>)))],
                       args |-> [messageId |-> ItemId(1), to |-> to],
                       now |-> now, text |-> t.text, reduced |-> h.reduced]
         \/ input = [data |-> [id |-> Some(ItemId(1)), threadId |-> None,
                               labelIds |-> None, payload |-> None],
                     args |-> [messageId |-> ItemId(1), to |-> to],
                     now |-> now, text |-> <<>>, reduced |-> <<>>]

\* forwardEmail from the answer of the fetch of getEmail to its send request,
\* or to the error getEmail throws (lines 243-268).
ComposeForward ==
    /\ phase = "input"
    /\ phase' = "built"
    /\ \E msg \in TypeErrorMessages :
         LET email == getEmail(input.data, msg)
         IN output' = Some(IF email.kind = "throw" THEN email
                           ELSE Return(SendMessageRequest(
                                    buildMimeMessage(ForwardOptions(email.value, input.args),
                                                     Boundary(input.now, <<107, 51>>)),
                                    None)))
    /\ UNCHANGED <<input, serverVars>>

SpecForward == InitForward /\ [][ComposeForward]_vars

\* The forward was composed and is to be sent.
ForwardSent == phase = "built" /\ output[1].kind = "return"

ForwardLines == DecodedLines(output[1].value.raw)

\* The body of the forward: its last line, base64 of UTF-8.
ForwardBody == Utf8Decode(Base64Decode(ForwardLines[Len(ForwardLines)]))

\* The template of a forward of the original, followed by `body`.
ExpectedForwardBody(body) ==
    <<10>> \o ForwardedSeparator \o <<10>>
    \o FwdFrom \o Original(NameFrom) \o <<10>>
    \o FwdDate \o Original(NameDate) \o <<10>>
    \o FwdSubject \o Original(NameSubject) \o <<10>>
    \o FwdTo \o Original(NameTo) \o <<10>>
    \o <<10>> \o body

\* C16 as stated: every forward that is sent has no In-Reply-To header, no
\* References header and no threadId, whatever the original; its body is
\* the template (empty line, separator, From, Date, Subject and To of the
\* original, empty line) followed by the text part of the original if that
\* is non-empty and by its HTML reduced to text otherwise.
C16_ForwardUnthreaded ==
    ForwardSent =>
        /\ LinesNamed(HeaderSection(ForwardLines), NameInReplyTo) = <<>>
        /\ LinesNamed(HeaderSection(ForwardLines), NameReferences) = <<>>
        /\ output[1].value.threadId = None
        /\ ForwardBody = ExpectedForwardBody(IF input.text /= <<>> THEN input.text
                                             ELSE input.reduced)

\* ------------------------------------------------------------------------
\* stripHtml applied to numeric character references
\* ------------------------------------------------------------------------

\* The referenced numbers: 'A', '&', U+00E9, U+20AC, U+D7FF, U+E000, U+FFFD,
\* U+FFFF, U+10000, U+1F600, U+10FFFF.
ReferencedValues == {65, 38, 233, 8364, 55295, 57344, 65533, 65535, 65536, 128512, 1114111}

\* The digit of value d: '0'..'9', then 'a'.. or 'A'..
DigitOf(d, upper) == IF d < 10 THEN 48 + d ELSE IF upper THEN 55 + d ELSE 87 + d

\* The number written in the radix.
RECURSIVE Digits(_, _, _)
Digits(n, radix, upper) ==
    IF n < radix THEN <<DigitOf(n, upper)>>
    ELSE Append(Digits(n \div radix, radix, upper), DigitOf(n % radix, upper))

\* The references to n: &#xh; in lower and upper case digits, and &#d;
ReferencesTo(n) ==
    { <<38, 35, 120>> \o Digits(n, 16, FALSE) \o <<59>>,
      <<38, 35, 120>> \o Digits(n, 16, TRUE) \o <<59>>,
      <<38, 35>> \o Digits(n, 10, FALSE) \o <<59>> }

\* What stands before and after the reference: nothing, "a", "<i>b</i>".
Surroundings == { <<>>, <<97>>, <<60, 105, 62, 98, 60, 47, 105, 62>> }

\* What is left of a surrounding: nothing, "a", "b".
Reduced(surrounding) ==
    IF surrounding = <<>> THEN <<>> ELSE IF surrounding = <<97>> THEN <<97>> ELSE <<98>>

InitStripHtml ==
    /\ Quiet
    /\ phase = "input"
    /\ output = None
    /\ \E n \in ReferencedValues, before \in Surroundings, after \in Surroundings :
         \E reference \in ReferencesTo(n) :
           input = [html |-> before \o reference \o after, value |-> n,
                    before |-> Reduced(before), after |-> Reduced(after)]

StripHtml ==
    /\ phase = "input"
    /\ phase' = "done"
    /\ output' = Some(stripHtml(input.html))
    /\ UNCHANGED <<input, serverVars>>

SpecStripHtml == InitStripHtml /\ [][StripHtml]_vars

\* The character of code point n as a string: one code unit, or the
\* surrogate pair of a code point above 0xFFFF.
CharacterOf(n) ==
    IF n < 65536 THEN <<n>>
    ELSE <<55296 + ((n - 65536) \div 1024), 56320 + ((n - 65536) % 1024)>>

\* C17 as stated: stripHtml replaces a hexadecimal or decimal numeric
\* character reference by the character whose code point is the referenced
\* number, for every number up to 0x10FFFF, those above 0xFFFF included.
C17_ReferenceToCodePoint ==
    phase = "done" =>
        output[1] = input.before \o CharacterOf(input.value) \o input.after

\* ------------------------------------------------------------------------
\* Properties of the calls a tool issues
\* ------------------------------------------------------------------------

\* The tools that neither build nor send a message.
PassThroughTools ==
    Tools \ {"send_email", "reply_to_email", "forward_email", "create_draft"}

\* The labels the invocation is to add and to remove.
ExpectedLabels ==
    CASE tool = "archive_email" -> [add |-> <<>>, remove |-> <<LabelInbox>>]
      [] tool = "mark_as_read" -> [add |-> <<>>, remove |-> <<LabelUnread>>]
      [] tool = "mark_as_unread" -> [add |-> <<LabelUnread>>, remove |-> <<>>]
      [] tool = "apply_label" -> [add |-> <<args.labelId>>, remove |-> <<>>]
      [] tool = "remove_label" -> [add |-> <<>>, remove |-> <<args.labelId>>]

\* The labels a list of a modify request names.
Named(list) == IF list = None THEN <<>> ELSE list[1]

\* The only call of the invocation is a modify of the given message that
\* names the expected label and no other.
OneLabelChanged ==
    /\ Len(calls) = 1
    /\ calls[1].op = "messages.modify"
    /\ calls[1].id = args.messageId
    /\ Named(calls[1].addLabelIds) = ExpectedLabels.add
    /\ Named(calls[1].removeLabelIds) = ExpectedLabels.remove

LabelTools ==
    {"archive_email", "mark_as_read", "mark_as_unread", "apply_label", "remove_label"}

\* C18 as stated: every pass-through tool, search_emails and list_drafts
\* included, issues exactly one service call; the five label tools issue one
\* modify that changes exactly their label.
C18_OneCallEach ==
    (pc = "done" /\ tool \in PassThroughTools) =>
        /\ Len(calls) = 1
        /\ tool \in LabelTools => OneLabelChanged

\* C18: every pass-through tool other than search_emails and list_drafts
\* issues exactly one service call; search_emails and list_drafts issue one
\* list call and one detail call per listed item; archive_email,
\* mark_as_read, mark_as_unread, apply_label and remove_label issue one
\* modify of the given message that removes INBOX, removes UNREAD, adds
\* UNREAD, adds the given label, removes the given label, and names no
\* other label.
C18_OneCallPerStep ==
    (pc = "done" /\ tool \in PassThroughTools) =>
        /\ tool \notin BatchTools => Len(calls) = 1
        /\ tool \in BatchTools =>
             Len(calls) = 1 + (IF listing = None THEN 0
                              ELSE Len(ListedItems(tool, listing[1])))
        /\ tool \in LabelTools => OneLabelChanged

\* archive_email ended after its only call, a modify of message m1 that
\* removes INBOX and adds nothing.
C18_Witness ==
    /\ pc = "done"
    /\ tool = "archive_email"
    /\ Succeeded
    /\ calls = <<[op |-> "messages.modify", id |-> ItemId(1), addLabelIds |-> None,
                  removeLabelIds |-> Some(<<LabelInbox>>)]>>

\* The places of the send requests among the calls of the invocation.
Sends == { i \in DOMAIN calls : calls[i].op = "messages.send" }

SendTools == {"send_email", "reply_to_email", "forward_email"}

\* At most one send per invocation; a reply or a forward issues it as its
\* second call, after its fetch has answered, and issues none when the fetch
\* has failed; a tool that has ended after a failure has issued no call
\* after the one that failed.
SendsWellPlaced ==
    /\ tool \in SendTools => Cardinality(Sends) <= 1
    /\ tool \in {"reply_to_email", "forward_email"} =>
         /\ Sends /= {} => (Sends = {2} /\ Len(calls) = 2 /\ received /= None)
         /\ (pc = "done" /\ received = None) => (Sends = {} /\ Len(calls) = 1)
    /\ (tool = "send_email" /\ pc /= "idle") => (Sends = {1} /\ Len(calls) = 1)

\* Once a call has failed or the handler has returned, the invocation
\* issues no further call: the calls change only with the next invocation.
NoCallAfterEnd ==
    ((raised /= None \/ response /= None) /\ calls' /= calls) => served' = served + 1

\* C19: an invocation of send_email, reply_to_email or forward_email issues
\* at most one send; a reply or a forward issues it only after its fetch
\* has answered and not at all when the fetch failed; after a failed call
\* and after the handler has returned, the invocation issues no call.
C19_SendAtMostOnce == [](SendsWellPlaced) /\ [][NoCallAfterEnd]_vars

\* The send of a reply failed after its fetch had answered: the invocation
\* ended in the error envelope with one send issued.
C19_Witness ==
    /\ tool = "reply_to_email"
    /\ pc = "done"
    /\ received /= None
    /\ raised /= None
    /\ Sends = {2}
    /\ IsErrorEnvelope(response[1].value, raised[1].message)

\* The lines of the section that hold the optional field: one line with the
\* value, when the option is present.
HoldsOnce(section, header, opt) ==
    Present(opt) => LinesNamed(section, HeaderName(header)) = <<header \o opt[1]>>

\* The names of the header lines the builder emits.
BuilderNames == OrderedNames \cup {HeaderName(CteBase64)}

\* C20 as stated: the header section of the decoded message has only header
\* lines of the builder, each name at most once, and each supplied field
\* value (to, cc, bcc, subject, inReplyTo, references) stands whole on the
\* one line of its header, whatever characters it contains.
C20_OneLinePerValue ==
    phase = "built" =>
        LET section == HeaderSection(DecodedLines(output[1]))
            o == input.options
        IN /\ \A i \in DOMAIN section : HeaderName(section[i]) \in BuilderNames
           /\ \A name \in BuilderNames : Len(LinesNamed(section, name)) <= 1
           /\ LinesNamed(section, NameTo) = <<HdrTo \o o.to>>
           /\ LinesNamed(section, NameSubject) = <<HdrSubject \o o.subject>>
           /\ HoldsOnce(section, HdrCc, o.cc)
           /\ HoldsOnce(section, HdrBcc, o.bcc)
           /\ HoldsOnce(section, HdrInReplyTo, o.inReplyTo)
           /\ HoldsOnce(section, HdrReferences, o.references)

=============================================================================
